---------------------------- MODULE Spec2Model ----------------------------
(***************************************************************************)
(* Model of the crawler and of the TF-IDF indexer of the search engine.    *)
(*                                                                         *)
(* Two specifications share this module:                                   *)
(*   FetchSpec  one call of Crawler::extract_html_from_page, stepped at    *)
(*              its suspension points (every request, the sleep);          *)
(*   Spec       the crawler's construction and run loop over the page      *)
(*              queue and the catalogue, interleaved with the indexer's    *)
(*              passes over the same catalogue.                            *)
(* Sources: src/services/crawler/src/{crawler,page}.rs,                     *)
(*          src/services/tf-idf-indexer/src/lib.rs,                         *)
(*          src/services/utils/src/lib.rs.                                  *)
(***************************************************************************)
EXTENDS Integers, Sequences, FiniteSets, TLC

VARIABLES
    \* ---- the fetcher (Crawler::extract_html_from_page) ----
    fpc,        \* position inside extract_html_from_page
    resp,       \* the local `resp`: the response held at the moment
    delay,      \* the local `delay` parsed from Retry-After (seconds)
    attempts,   \* the local `attempts`
    requests,   \* number of calls of make_get_request so far
    slept,      \* the durations passed to tokio::time::sleep, in order
    fresult,    \* what extract_html_from_page returned
    \* ---- the catalogue (table `pages`) ----
    pool,       \* TRUE: a database is attached (Some(pool)); FALSE: None
    db,         \* url |-> row, for the urls that have a row
    \* ---- the crawler (struct Crawler and its run loop) ----
    pc,         \* position of the crawler process
    queue,      \* Crawler.queue: the PageQueue [queue, hashset]
    crawled,    \* Crawler.crawled
    page,       \* the page popped by run, being crawled
    pending,    \* the hrefs of the page that crawl_page has still to visit
    cresult,    \* what the last crawl_page returned
    failed,     \* the pages logged "Crawl failed" by this run
    \* ---- the indexer (struct Indexer and its run loop) ----
    ipc,        \* position of the indexer process
    pages,      \* Indexer.pages: the PageQueue [queue, hashset] of page ids
    num_pages,  \* Indexer.num_pages
    terms,      \* Indexer.terms: term |-> Term
    terms_table,\* table `terms`: term |-> row
    \* ---- one call of a function checked on its own ----
    args,       \* the arguments of the call
    ret         \* None before the call, Some(value returned) after it

fvars == <<fpc, resp, delay, attempts, requests, slept, fresult>>

dbvars == <<pool, db>>

cvars == <<pc, queue, crawled, page, pending, cresult, failed>>

ivars == <<ipc, pages, num_pages, terms, terms_table>>

callvars == <<args, ret>>

vars == <<fvars, dbvars, cvars, ivars, callvars>>

(***************************************************************************)
(* Bounds.                                                                 *)
(***************************************************************************)
\* longest Retry-After header value that a modelled server sends
MaxHeaderLen == 2

\* longest list of seed pages handed to Crawler::new
MaxSeeds == 2

\* most anchors with an href on one fetched page
MaxLinks == 2

\* tokens in the text of one page
MaxWords == 2

\* characters of a string handed to Term::new on its own
MaxTermLen == 3

\* query parameters of a url handed to normalize_url on its own
MaxParams == 2

(***************************************************************************)
(* Option<T>: None is the empty sequence, Some(v) the one-element one.     *)
(***************************************************************************)
None == << >>

Some(v) == << v >>

(***************************************************************************)
(* The fetcher: responses.                                                 *)
(***************************************************************************)
\* StatusCode::OK, StatusCode::TOO_MANY_REQUESTS and two other statuses
StatusOK == 200

StatusTooManyRequests == 429

Statuses == {StatusOK, StatusTooManyRequests, 404, 503}

\* The bytes of a Retry-After value: digits, a sign, a letter and a byte
\* of obs-text (0x80..0xFF), which HeaderValue holds but to_str() rejects.
Digits == {"0", "1", "6"}

HeaderChars == Digits \cup {"+", "a", "OBS"}

RECURSIVE SeqsUpTo(_, _)
SeqsUpTo(S, n) ==
    IF n = 0 THEN {<< >>}
    ELSE LET shorter == SeqsUpTo(S, n - 1)
         IN  shorter \cup {Append(s, c) : s \in shorter, c \in S}

HeaderValues == SeqsUpTo(HeaderChars, MaxHeaderLen)

\* resp.text(): an empty body, a non-empty body, or bytes that fail to decode
Bodies == {"empty", "html", "undecodable"}

\* What a server can answer.  The parts of a response that the fetcher
\* never reads are fixed: the body of a response that is not a 200 and the
\* Retry-After header of a response that is not a 429.
Responses ==
    {[status |-> StatusOK, retry_after |-> None, body |-> b] : b \in Bodies}
    \cup {[status |-> StatusTooManyRequests, retry_after |-> h, body |-> "html"] :
            h \in {None} \cup {Some(v) : v \in HeaderValues}}
    \cup {[status |-> s, retry_after |-> None, body |-> "html"] :
            s \in Statuses \ {StatusOK, StatusTooManyRequests}}

NoResp == [status |-> 0, retry_after |-> None, body |-> "empty"]

\* HeaderValue::to_str: Ok iff every byte is visible ASCII
ToStrOk(raw) == \A i \in 1..Len(raw) : raw[i] # "OBS"

DigitValue(c) == CASE c = "0" -> 0 [] c = "1" -> 1 [] c = "6" -> 6

RECURSIVE DigitsValue(_)
DigitsValue(ds) ==
    IF ds = << >> THEN 0
    ELSE 10 * DigitsValue(SubSeq(ds, 1, Len(ds) - 1)) + DigitValue(ds[Len(ds)])

\* str::parse::<u64>: an optional '+', then at least one digit, only digits.
\* (the bound MaxHeaderLen keeps every value far below 2^64)
ParseDigits(raw) ==
    IF Len(raw) > 0 /\ raw[1] = "+" THEN Tail(raw) ELSE raw

ParseU64Ok(raw) ==
    LET ds == ParseDigits(raw)
    IN  Len(ds) > 0 /\ \A i \in 1..Len(ds) : ds[i] \in Digits

ParseU64(raw) == DigitsValue(ParseDigits(raw))

\* const MAX_ATTEMPTS: u8 = 10;  const MAX_DELAY = Duration::from_secs(60)
MAX_ATTEMPTS == 10

MAX_DELAY == 60

(***************************************************************************)
(* Results of extract_html_from_page: Ok(html), an Error variant, or a     *)
(* panic (an unwrap/expect that fails unwinds out of the function).        *)
(***************************************************************************)
Result(kind, detail) == [kind |-> kind, detail |-> detail]

NoResult == Result("none", << >>)

OkHtml == Result("Ok", << >>)

FailedRequest == Result("FailedRequest", << >>)

EmptyPage == Result("EmptyPage", << >>)

HtmlDecoding == Result("HtmlDecoding", << >>)

RequestTimeout == Result("RequestTimeout", << >>)

InvalidRetryByHeader(header) == Result("InvalidRetryByHeader", <<header>>)

MalformedHttpStatus(status) == Result("MalformedHttpStatus", <<status>>)

Panic(where) == Result("Panic", <<where>>)

\* Crawler::extract_html_from_resp followed by the caller's handling of
\* None: `whenNone` is what the caller makes of an empty body.
ExtractHtmlFromResp(r, whenNone) ==
    CASE r.body = "undecodable" -> HtmlDecoding
      [] r.body = "empty"       -> whenNone
      [] r.body = "html"        -> OkHtml

\* variant of LoopCond: only a 429 is retried, another status leaves the loop
LoopCondOnly429(a, r) == a <= MAX_ATTEMPTS /\ r.status = StatusTooManyRequests

\* the guard of `while attempts <= MAX_ATTEMPTS && resp.status() != OK`
LoopCond(a, r) == a <= MAX_ATTEMPTS /\ r.status # StatusOK

FetchInit ==
    /\ fpc = "start"
    /\ resp = NoResp
    /\ delay = 0
    /\ attempts = 0
    /\ requests = 0
    /\ slept = << >>
    /\ fresult = NoResult

\* line 216: let mut resp = self.make_get_request(page.clone()).await?;
FetchStart ==
    /\ fpc = "start"
    /\ requests' = requests + 1
    /\ \/ /\ fpc' = "done"
          /\ fresult' = FailedRequest
          /\ UNCHANGED resp
       \/ /\ \E r \in Responses : resp' = r
          /\ fpc' = "match"
          /\ UNCHANGED fresult
    /\ UNCHANGED <<delay, attempts, slept>>
    /\ UNCHANGED <<dbvars, cvars, ivars, callvars>>

\* lines 218-277: match status { OK => .., TOO_MANY_REQUESTS => .., _ => .. }
\* up to the sleep
FetchMatch ==
    /\ fpc = "match"
    /\ UNCHANGED <<resp, attempts, requests, slept>>
    /\ CASE resp.status = StatusOK ->
              /\ fresult' = ExtractHtmlFromResp(resp, EmptyPage)
              /\ fpc' = "done"
              /\ UNCHANGED delay
         [] resp.status = StatusTooManyRequests ->
              IF resp.retry_after = None
              THEN /\ fresult' = InvalidRetryByHeader(None)
                   /\ fpc' = "done"
                   /\ UNCHANGED delay
              ELSE LET raw == resp.retry_after[1]
                   IN  IF ~ToStrOk(raw)
                       THEN /\ fresult' = Panic("retry_after.to_str().unwrap()")
                            /\ fpc' = "done"
                            /\ UNCHANGED delay
                       ELSE IF ~ParseU64Ok(raw)
                       THEN /\ fresult' = InvalidRetryByHeader(Some(raw))
                            /\ fpc' = "done"
                            /\ UNCHANGED delay
                       ELSE IF ParseU64(raw) > MAX_DELAY
                       THEN /\ fresult' = RequestTimeout
                            /\ fpc' = "done"
                            /\ UNCHANGED delay
                       ELSE /\ delay' = ParseU64(raw)
                            /\ fpc' = "sleep"
                            /\ UNCHANGED fresult
         [] OTHER ->
              /\ fresult' = MalformedHttpStatus(resp.status)
              /\ fpc' = "done"
              /\ UNCHANGED delay
    /\ UNCHANGED <<dbvars, cvars, ivars, callvars>>

\* line 256: tokio::time::sleep(delay).await;
FetchSleep ==
    /\ fpc = "sleep"
    /\ slept' = Append(slept, delay)
    /\ fpc' = "loop"
    /\ UNCHANGED <<resp, delay, attempts, requests, fresult>>
    /\ UNCHANGED <<dbvars, cvars, ivars, callvars>>

\* variant of FetchRetry: the sleep sits inside the loop
FetchRetrySleeping ==
    /\ fpc = "loop"
    /\ LoopCond(attempts, resp)
    /\ requests' = requests + 1
    /\ slept' = Append(slept, delay)
    /\ \/ /\ fpc' = "done"
          /\ fresult' = FailedRequest
          /\ UNCHANGED <<resp, attempts>>
       \/ /\ \E r \in Responses : resp' = r
          /\ attempts' = attempts + 1
          /\ UNCHANGED <<fpc, fresult>>
    /\ UNCHANGED delay
    /\ UNCHANGED <<dbvars, cvars, ivars, callvars>>

\* lines 258-261: one iteration of the retry loop
FetchRetry ==
    /\ fpc = "loop"
    /\ LoopCond(attempts, resp)
    /\ requests' = requests + 1
    /\ \/ /\ fpc' = "done"
          /\ fresult' = FailedRequest
          /\ UNCHANGED <<resp, attempts>>
       \/ /\ \E r \in Responses : resp' = r
          /\ attempts' = attempts + 1
          /\ UNCHANGED <<fpc, fresult>>
    /\ UNCHANGED <<delay, slept>>
    /\ UNCHANGED <<dbvars, cvars, ivars, callvars>>

\* lines 263-269: after the loop
FetchAfterLoop ==
    /\ fpc = "loop"
    /\ ~LoopCond(attempts, resp)
    /\ fresult' = IF resp.status # StatusOK
                  THEN RequestTimeout
                  ELSE ExtractHtmlFromResp(resp, Panic("html.unwrap()"))
    /\ fpc' = "done"
    /\ UNCHANGED <<resp, delay, attempts, requests, slept>>
    /\ UNCHANGED <<dbvars, cvars, ivars, callvars>>

(***************************************************************************)
(* URLs.  A url is its scheme, host, query and fragment flag; every        *)
(* modelled url has the path "/".  The query is the sequence of its        *)
(* parameters, each a pair <<key, value>>, and a key is the sequence of    *)
(* its characters.  url.to_string() is the key of its row, and Url::parse  *)
(* of a stored key gives the url back.                                     *)
(***************************************************************************)
Url(scheme, host, query, fragment) ==
    [scheme |-> scheme, host |-> host, query |-> query, fragment |-> fragment]

\* Url::domain(): Some for a registered name, None for an IP-address host
Domains == {"a.com", "b.com", "c.com", "xvideos.com", "damn.com"}

HasDomain(url) == url.host \in Domains

\* the query keys "utm_source", "myutm", "id", "t" and "rating"
KeyUtmSource == <<"u", "t", "m", "_", "s", "o", "u", "r", "c", "e">>

KeyMyUtm == <<"m", "y", "u", "t", "m">>

KeyId == <<"i", "d">>

KeyT == <<"t">>

KeyRating == <<"r", "a", "t", "i", "n", "g">>

\* str::contains
RECURSIVE str_contains(_, _)
str_contains(str, pat) ==
    IF Len(str) < Len(pat) THEN FALSE
    ELSE \/ SubSeq(str, 1, Len(pat)) = pat
         \/ str_contains(Tail(str), pat)

\* variant of query_is_passive: query.starts_with("utm")
query_is_passive_prefix(key) ==
    \/ (Len(key) >= 3 /\ SubSeq(key, 1, 3) = <<"u", "t", "m">>)
    \/ key = KeyId
    \/ key = KeyT

\* Crawler::query_is_passive
query_is_passive(key) ==
    str_contains(key, <<"u", "t", "m">>) \/ key = KeyId \/ key = KeyT

\* url.query_pairs().filter(|(query, _)| !Self::query_is_passive(query))
RECURSIVE ActiveParams(_)
ActiveParams(query) ==
    IF query = << >> THEN << >>
    ELSE IF query_is_passive(Head(query)[1])
         THEN ActiveParams(Tail(query))
         ELSE <<Head(query)>> \o ActiveParams(Tail(query))

\* Crawler::normalize_url panics at url.domain().expect(..)
NormalizePanics(url) ==
    /\ url.query # << >> \/ url.fragment
    /\ ~HasDomain(url)

\* Crawler::normalize_url, where it returns
normalize_url(url) ==
    IF url.query = << >> /\ ~url.fragment
    THEN url
    ELSE Url("https", url.host, ActiveParams(url.query), FALSE)

\* The hrefs of a page: an absolute url, a reference to a fragment of the
\* page itself ("#top"), or a string that does not parse.
AbsHref(url) == [kind |-> "abs", url |-> url]

FragmentHref == [kind |-> "rel", url |-> Url("", "", << >>, TRUE)]

BadHref == [kind |-> "bad", url |-> Url("", "", << >>, FALSE)]

\* utils::string_to_url
string_to_url(base_url, href) ==
    CASE href.kind = "bad" -> None
      [] href.kind = "abs" -> Some(href.url)
      [] href.kind = "rel" -> Some([base_url EXCEPT !.fragment = TRUE])

PageA == Url("https", "a.com", << >>, FALSE)

PageB == Url("https", "b.com", << >>, FALSE)

NoPage == Url("", "", << >>, FALSE)

\* the urls of the seed file
SeedUrls == {PageA, PageB}

\* the hrefs that the modelled web serves
Hrefs ==
    { BadHref,
      FragmentHref,
      AbsHref(PageA),
      AbsHref(Url("http", "b.com", <<<<KeyUtmSource, "x">>>>, FALSE)),
      AbsHref(Url("https", "c.com", <<<<KeyId, "5">>, <<KeyRating, "5">>>>, TRUE)),
      AbsHref(Url("http", "127.0.0.1", <<<<KeyRating, "5">>>>, FALSE)) }

(***************************************************************************)
(* Documents, as the content filter reads them: the lang attribute of the  *)
(* html element (None if it has none, else its characters) and what        *)
(* Censor::analyze finds in the visible text.                              *)
(***************************************************************************)
Html(lang, text) == [lang |-> lang, text |-> text]

\* lang="en", "en-US", "fr", "EN"
LangEn == <<"e", "n">>

LangEnUs == <<"e", "n", "-", "U", "S">>

LangFr == <<"f", "r">>

LangUpper == <<"E", "N">>

Langs == {None, Some(LangEn), Some(LangEnUs), Some(LangFr), Some(LangUpper)}

\* rustrict::Type, by its severity
Severities == {"NONE", "MILD", "SEVERE"}

Documents == {Html(lang, text) : lang \in Langs, text \in Severities}

\* str::starts_with
starts_with(str, pat) == Len(str) >= Len(pat) /\ SubSeq(str, 1, Len(pat)) = pat

\* Crawler::is_english
is_english(html) == html.lang # None /\ starts_with(html.lang[1], LangEn)

\* Crawler::is_severity_inappropriate
is_severity_inappropriate(severity) == severity = "SEVERE"

\* a url with the blocked keyword in its domain, one with a mild word
PageBlocked == Url("https", "xvideos.com", << >>, FALSE)

PageMild == Url("https", "damn.com", << >>, FALSE)

\* Censor::from_str(page.url.as_str()) with BLOCKED_KEYWORDS, analyze()
UrlSeverity(url) ==
    CASE url.host = "xvideos.com" -> "SEVERE"
      [] url.host = "damn.com"    -> "MILD"
      [] OTHER                    -> "NONE"

\* Crawler::is_inappropriate_page
is_inappropriate_page(p, html) ==
    \/ is_severity_inappropriate(UrlSeverity(p))
    \/ is_severity_inappropriate(html.text)

(***************************************************************************)
(* Page text.  A whitespace-separated token of a page's visible text is    *)
(* its letters (lower-cased, diacritics removed) and three flags: some     *)
(* letter is upper case, an ASCII punctuation mark is attached, a digit    *)
(* occurs.  A document is the sequence of its tokens.                      *)
(***************************************************************************)
RawToken(letters, upper, punct, digit) ==
    [letters |-> letters, upper |-> upper, punct |-> punct, digit |-> digit]

\* "Ladder,"
TokLadderCap == RawToken("ladder", TRUE, TRUE, FALSE)

\* "ladder"
TokLadder == RawToken("ladder", FALSE, FALSE, FALSE)

\* "pipe"
TokPipe == RawToken("pipe", FALSE, FALSE, FALSE)

\* "the"
TokThe == RawToken("the", FALSE, FALSE, FALSE)

\* "h2o"
TokH2o == RawToken("ho", FALSE, FALSE, TRUE)

\* "The,"
TokTheCap == RawToken("the", TRUE, TRUE, FALSE)

\* "-", a token of ASCII punctuation only
TokDash == RawToken("", FALSE, TRUE, FALSE)

\* tokens of documents with a dash between words
PunctTokens == {TokDash, TokPipe}

\* tokens of documents with stop words as they are written in a sentence
FilterTokens == {TokTheCap, TokThe, TokPipe}

\* the tokens the documents of the indexer's specifications are made of
DocTokens == {TokLadderCap, TokPipe, TokThe}

\* the visible text of a stored page: up to MaxWords tokens
Docs == SeqsUpTo(DocTokens, MaxWords)

\* the text the web serves at a url (the crawler stores what it fetched)
WebText(url) ==
    CASE url.host = "a.com" -> <<TokLadderCap, TokPipe, TokH2o>>
      [] url.host = "b.com" -> <<TokThe, TokLadder>>
      [] OTHER              -> <<TokLadder, TokLadderCap>>

\* Crawler::extract_title_from_html of the document the web serves at a
\* url: the text of its first title element, None if it has none
WebTitle(url) == IF url.host = "a.com" THEN Some("title") ELSE None

(***************************************************************************)
(* The catalogue: table `pages`.  A row is its columns is_crawled,         *)
(* is_indexed, title and html; the column url is the key of the row.       *)
(***************************************************************************)
\* pub const QUEUE_LIMIT (scaled down from 500000 so that LIMIT truncates)
QUEUE_LIMIT == 2

Range(seq) == {seq[i] : i \in 1..Len(seq)}

Min(a, b) == IF a <= b THEN a ELSE b

\* the answers a `SELECT .. LIMIT QUEUE_LIMIT` without ORDER BY can give
\* over the matching rows S: any QUEUE_LIMIT of them, in any order
SelectLimit(S) ==
    {seq \in [1..Min(Cardinality(S), QUEUE_LIMIT) -> S] :
        \A i, j \in DOMAIN seq : i # j => seq[i] # seq[j]}

\* WHERE is_crawled = FALSE
UncrawledRows(d) == {u \in DOMAIN d : ~d[u].is_crawled}

\* WHERE is_crawled = TRUE
CrawledRows(d) == {u \in DOMAIN d : d[u].is_crawled}

\* WHERE is_indexed = FALSE AND is_crawled = TRUE
UnindexedCrawledRows(d) == {u \in DOMAIN d : ~d[u].is_indexed /\ d[u].is_crawled}

\* SELECT COUNT(*) FROM pages WHERE is_indexed = TRUE
CountIndexed(d) == Cardinality({u \in DOMAIN d : d[u].is_indexed})

\* variant of InsertPage: ON CONFLICT (url) DO UPDATE SET is_crawled = FALSE,
\* is_indexed = FALSE
InsertPageReset(d, url) ==
    [u \in DOMAIN d \cup {url} |->
        IF u \in DOMAIN d /\ u # url
        THEN d[u]
        ELSE [is_crawled |-> FALSE, is_indexed |-> FALSE,
              title |-> IF u \in DOMAIN d THEN d[u].title ELSE None,
              html |-> IF u \in DOMAIN d THEN d[u].html ELSE None]]

\* Page::add_to_db: INSERT .. VALUES ($1, FALSE, FALSE) ON CONFLICT DO NOTHING
InsertPage(d, url) ==
    [u \in DOMAIN d \cup {url} |->
        IF u \in DOMAIN d THEN d[u]
        ELSE [is_crawled |-> FALSE, is_indexed |-> FALSE, title |-> None,
              html |-> None]]

RECURSIVE InsertPages(_, _)
InsertPages(d, urls) ==
    IF urls = << >> THEN d
    ELSE InsertPages(InsertPage(d, Head(urls)), Tail(urls))

\* variant of MarkCrawled: the UPDATE sets is_crawled and leaves html NULL
MarkCrawledNoHtml(d, url, html) ==
    [u \in DOMAIN d |->
        IF u = url
        THEN [d[u] EXCEPT !.title = WebTitle(url), !.is_crawled = TRUE]
        ELSE d[u]]

\* CrawledPage::add_to_db: UPDATE pages SET html, title, is_crawled = TRUE
MarkCrawled(d, url, html) ==
    [u \in DOMAIN d |->
        IF u = url
        THEN [d[u] EXCEPT !.html = Some(html), !.title = WebTitle(url),
                          !.is_crawled = TRUE]
        ELSE d[u]]

\* variant of MarkIndexed: the UPDATE matches no row
MarkIndexedNoRow(d, id) == d

\* Page::mark_as_crawled of the indexer: UPDATE pages SET is_indexed = TRUE
MarkIndexed(d, id) ==
    [u \in DOMAIN d |->
        IF u = id THEN [d[u] EXCEPT !.is_indexed = TRUE] ELSE d[u]]

(***************************************************************************)
(* PageQueue (both services): a VecDeque and a HashSet.                    *)
(***************************************************************************)
EmptyQueue == [queue |-> << >>, hashset |-> {}]

\* self.queue.push_back(page.clone()); self.hashset.insert(page);
PushBack(q, p) ==
    [queue |-> Append(q.queue, p), hashset |-> q.hashset \cup {p}]

RECURSIVE PushAll(_, _)
PushAll(q, ps) ==
    IF ps = << >> THEN q ELSE PushAll(PushBack(q, Head(ps)), Tail(ps))

\* variant of PopFront: the page at the back is removed (pop_back)
PopBack(q) ==
    [queue |-> SubSeq(q.queue, 1, Len(q.queue) - 1),
     hashset |-> q.hashset \ {q.queue[Len(q.queue)]}]

\* self.hashset.remove(page); self.queue.pop_front()
PopFront(q) ==
    [queue |-> Tail(q.queue), hashset |-> q.hashset \ {Head(q.queue)}]

\* variant of QueuePage: the page is appended also when there is a database
QueuePageBoth(q, p, withPool) == PushBack(q, p)

\* PageQueue::queue_page, its effect on the queue
QueuePage(q, p, withPool) == IF withPool THEN q ELSE PushBack(q, p)

\* PageQueue::queue_page, its effect on the catalogue
QueuePageDb(d, p, withPool) == IF withPool THEN InsertPage(d, p) ELSE d

RECURSIVE QueuePages(_, _, _)
QueuePages(q, ps, withPool) ==
    IF ps = << >> THEN q
    ELSE QueuePages(QueuePage(q, Head(ps), withPool), Tail(ps), withPool)

\* PageQueue::contains_page
contains_page(q, p) == p \in q.hashset

(***************************************************************************)
(* The crawler.                                                            *)
(***************************************************************************)
NonEnglishPage == Result("NonEnglishPage", << >>)

InappropriateSite == Result("InappropriateSite", << >>)

OkCrawledPage == Result("Ok", << >>)

\* the documents the modelled web serves to the run loop: one not in
\* English, one in English with blocked text, one that passes
WebDocuments ==
    {Html(Some(LangFr), "NONE"), Html(Some(LangEn), "SEVERE"),
     Html(Some(LangEn), "NONE")}

\* variant of CrawlFilter: the content check comes before the language check
CrawlFilterContentFirst(p, html) ==
    IF is_inappropriate_page(p, html) THEN InappropriateSite
    ELSE IF ~is_english(html) THEN NonEnglishPage
    ELSE OkHtml

\* crawl_page, lines 105-111: the error the filters return, Ok if none
CrawlFilter(p, html) ==
    IF ~is_english(html) THEN NonEnglishPage
    ELSE IF is_inappropriate_page(p, html) THEN InappropriateSite
    ELSE OkHtml

\* what extract_html_from_page can hand to crawl_page (see FetchSpec)
FetchOutcomes ==
    { OkHtml, FailedRequest, EmptyPage, HtmlDecoding, RequestTimeout,
      InvalidRetryByHeader(None), MalformedHttpStatus(404),
      Panic("extract_html_from_page") }

SeedLists == SeqsUpTo(SeedUrls, MaxSeeds)

CrawlerIdle ==
    /\ pc = "new"
    /\ queue = EmptyQueue
    /\ crawled = {}
    /\ page = NoPage
    /\ pending = << >>
    /\ cresult = NoResult
    /\ failed = {}

\* Crawler::new: init_crawled, then init_queue (refresh_queue, then
\* queue_page of every starting page)
CrawlerNew ==
    /\ pc = "new"
    /\ \E starting_pages \in SeedLists :
        IF pool
        THEN /\ \E rows \in SelectLimit(CrawledRows(db)) :
                    crawled' = Range(rows)
             /\ \E rows \in SelectLimit(UncrawledRows(db)) :
                    queue' = QueuePages(PushAll(EmptyQueue, rows),
                                        starting_pages, pool)
             /\ db' = InsertPages(db, starting_pages)
        ELSE /\ crawled' = {}
             /\ queue' = QueuePages(EmptyQueue, starting_pages, pool)
             /\ UNCHANGED db
    /\ pc' = "run"
    /\ UNCHANGED <<pool, page, pending, cresult, failed>>
    /\ UNCHANGED <<fvars, ivars, callvars>>

\* run: `while let Some(page) = self.next_page(pool).await`, i.e.
\* PageQueue::pop with its refresh_queue
CrawlerPop ==
    /\ pc = "run"
    /\ \E rows \in (IF queue.queue = << >> /\ pool
                    THEN SelectLimit(UncrawledRows(db)) ELSE {<< >>}) :
        LET q == PushAll(queue, rows)
        IN  IF q.queue # << >>
            THEN /\ page' = Head(q.queue)
                 /\ queue' = PopFront(q)
                 /\ pc' = "crawl"
            ELSE /\ pc' = "done"
                 /\ UNCHANGED <<page, queue>>
    /\ cresult' = NoResult
    /\ UNCHANGED <<pool, db, crawled, pending, failed>>
    /\ UNCHANGED <<fvars, ivars, callvars>>

\* variant of RunOnResult: run stores the page whatever crawl_page returned
RunOnResultAlways(d, p, res, withPool) ==
    IF withPool THEN MarkCrawled(d, p, WebText(p)) ELSE d

\* run, lines 62-73: the catalogue after `match self.crawl_page(..)`
RunOnResult(d, p, res, withPool) ==
    IF res.kind = "Ok" /\ withPool THEN MarkCrawled(d, p, WebText(p)) ELSE d

\* variant of CrawlFails: the error is returned after the link loop has
\* queued a link of the page
CrawlFailsAfterLinks(res) ==
    /\ pc' = "run"
    /\ cresult' = res
    /\ failed' = failed \cup {page}
    /\ \E p \in SeedUrls :
        /\ queue' = QueuePage(queue, p, pool)
        /\ crawled' = crawled \cup {p}
        /\ db' = QueuePageDb(RunOnResult(db, page, res, pool), p, pool)
    /\ UNCHANGED pending

\* crawl_page returns Err(res) at lines 101, 106 or 110, before the link
\* loop, to run: log::warn!("Crawl failed: {}", e)
CrawlFails(res) ==
    /\ pc' = "run"
    /\ cresult' = res
    /\ failed' = failed \cup {page}
    /\ db' = RunOnResult(db, page, res, pool)
    /\ UNCHANGED <<queue, crawled>>
    /\ UNCHANGED pending

\* crawl_page, lines 101-114: fetch, language and content filter, hrefs
CrawlFetch ==
    /\ pc = "crawl"
    /\ \E r \in FetchOutcomes :
        CASE r.kind = "Panic" ->
                /\ pc' = "panicked"
                /\ cresult' = r
                /\ UNCHANGED <<db, pending, failed, queue, crawled>>
          [] r.kind = "Ok" ->
                \E html \in WebDocuments :
                    LET res == CrawlFilter(page, html)
                    IN  IF res.kind # "Ok" THEN CrawlFails(res)
                        ELSE \E urls \in SeqsUpTo(Hrefs, MaxLinks) :
                                /\ pc' = "links"
                                /\ pending' = urls
                                /\ UNCHANGED <<db, cresult, failed,
                                               queue, crawled>>
          [] OTHER -> CrawlFails(r)
    /\ UNCHANGED <<pool, page>>
    /\ UNCHANGED <<fvars, ivars, callvars>>

\* variant of IsDuplicate: no link is taken for a duplicate
IsDuplicateNever(c, q, p) == FALSE

\* crawl_page, line 127: self.crawled.contains(&page) || self.is_page_queued(&page)
IsDuplicate(c, q, p) == p \in c \/ contains_page(q, p)

\* variant of CrawledInsert: a queued link is not added to crawled
CrawledInsertNever(c, p) == c

\* crawl_page, line 138: self.crawled.insert(page), page being the link
CrawledInsert(c, p) == c \cup {p}

\* crawl_page, lines 118-139: one iteration of `for url in urls`
CrawlLink ==
    /\ pc = "links"
    /\ pending # << >>
    /\ pending' = Tail(pending)
    /\ LET url == string_to_url(page, Head(pending))
       IN  IF url = None
           THEN UNCHANGED <<pc, db, queue, crawled, cresult>>
           ELSE IF NormalizePanics(url[1])
           THEN /\ pc' = "panicked"
                /\ cresult' = Panic("normalize_url")
                /\ UNCHANGED <<db, queue, crawled>>
           ELSE LET p == normalize_url(url[1])
                IN  IF IsDuplicate(crawled, queue, p)
                    THEN UNCHANGED <<pc, db, queue, crawled, cresult>>
                    ELSE /\ queue' = QueuePage(queue, p, pool)
                         /\ db' = QueuePageDb(db, p, pool)
                         /\ crawled' = CrawledInsert(crawled, p)
                         /\ UNCHANGED <<pc, cresult>>
    /\ UNCHANGED <<pool, page, failed>>
    /\ UNCHANGED <<fvars, ivars, callvars>>

\* crawl_page returns Ok(page.into_crawled(..)); run: crawled_page.add_to_db
CrawlReturn ==
    /\ pc = "links"
    /\ pending = << >>
    /\ cresult' = OkCrawledPage
    /\ db' = RunOnResult(db, page, OkCrawledPage, pool)
    /\ pc' = "run"
    /\ UNCHANGED <<pool, queue, crawled, page, pending, failed>>
    /\ UNCHANGED <<fvars, ivars, callvars>>

\* crawl_page, line 133, when the store refuses the INSERT of the link:
\* Page::add_to_db ends in `.execute(pool).await.unwrap()`
CrawlLinkDbFails ==
    /\ pc = "links"
    /\ pool
    /\ pending # << >>
    /\ pending' = Tail(pending)
    /\ LET url == string_to_url(page, Head(pending))
       IN  /\ url # None
           /\ ~NormalizePanics(url[1])
           /\ ~IsDuplicate(crawled, queue, normalize_url(url[1]))
    /\ pc' = "panicked"
    /\ cresult' = Panic("Page::add_to_db")
    /\ UNCHANGED <<pool, db, queue, crawled, page, failed>>
    /\ UNCHANGED <<fvars, ivars, callvars>>

\* run, line 65, when the store refuses the UPDATE of the crawled page:
\* CrawledPage::add_to_db ends in `.execute(pool).await.unwrap()`
RunDbFails ==
    /\ pc = "links"
    /\ pool
    /\ pending = << >>
    /\ pc' = "panicked"
    /\ cresult' = Panic("CrawledPage::add_to_db")
    /\ UNCHANGED <<pool, db, queue, crawled, page, pending, failed>>
    /\ UNCHANGED <<fvars, ivars, callvars>>

\* the crawler process is stopped between two steps and started again:
\* what it held in memory is gone, the catalogue is as it was.  ret records
\* that the stop has happened: the process is stopped once in a behaviour.
CrawlerStop ==
    /\ pc \in {"run", "crawl", "links"}
    /\ ret = None
    /\ ret' = Some("stopped")
    /\ pc' = "new"
    /\ queue' = EmptyQueue
    /\ crawled' = {}
    /\ page' = NoPage
    /\ pending' = << >>
    /\ cresult' = NoResult
    /\ failed' = {}
    /\ UNCHANGED <<pool, db, args>>
    /\ UNCHANGED <<fvars, ivars>>

\* the process ends (run returned, or a panic unwound) and is started again
CrawlerRestart ==
    /\ pc \in {"done", "panicked"}
    /\ pc' = "new"
    /\ queue' = EmptyQueue
    /\ crawled' = {}
    /\ page' = NoPage
    /\ pending' = << >>
    /\ cresult' = NoResult
    /\ failed' = {}
    /\ UNCHANGED <<pool, db>>
    /\ UNCHANGED <<fvars, ivars, callvars>>

(***************************************************************************)
(* crawl_page called on its own, as the tests call it, twice on one page.  *)
(* args is [page, html, urls, before, calls]: the page, its document and   *)
(* the hrefs of the document, the queue before the first call and the      *)
(* number of calls made; ret holds the queue as the first call left it.    *)
(***************************************************************************)
\* the pages a caller hands to crawl_page
CallPages == SeedUrls \cup {PageBlocked, PageMild}

\* crawl_page(page, pool), lines 101-114, on a page that is fetched: the
\* page that run has popped, or a page handed in by the caller.  The hrefs
\* of a document that the filters reject are never read.
CallCrawlPage ==
    /\ pc \in {"run", "crawl"}
    /\ args = << >>
    /\ \E p \in (IF pc = "crawl" THEN {page} ELSE CallPages),
          html \in Documents :
        LET res == CrawlFilter(p, html)
        IN  /\ page' = p
            /\ IF res.kind = "Ok"
               THEN /\ \E urls \in SeqsUpTo(Hrefs, MaxLinks) :
                        /\ pending' = urls
                        /\ args' = [page |-> p, html |-> html, urls |-> urls,
                                    before |-> queue, calls |-> 1]
                    /\ pc' = "links"
                    /\ UNCHANGED <<cresult, ret>>
               ELSE /\ args' = [page |-> p, html |-> html, urls |-> << >>,
                                before |-> queue, calls |-> 1]
                    /\ cresult' = res
                    /\ ret' = Some(queue)
                    /\ pc' = "called"
                    /\ UNCHANGED pending
    /\ UNCHANGED <<pool, db, queue, crawled, failed>>
    /\ UNCHANGED <<fvars, ivars>>

\* crawl_page returns Ok(page.into_crawled(..)) to the caller
CallReturn ==
    /\ pc = "links"
    /\ pending = << >>
    /\ args # << >>
    /\ cresult' = OkCrawledPage
    /\ pc' = "called"
    /\ ret' = IF args.calls = 1 THEN Some(queue) ELSE ret
    /\ UNCHANGED <<args, pool, db, queue, crawled, page, pending, failed>>
    /\ UNCHANGED <<fvars, ivars>>

\* the caller calls crawl_page(page, pool) again: the same page, the same
\* document
CallAgain ==
    /\ pc = "called"
    /\ args.calls = 1
    /\ args' = [args EXCEPT !.calls = 2]
    /\ LET res == CrawlFilter(args.page, args.html)
       IN  IF res.kind = "Ok"
           THEN /\ pending' = args.urls
                /\ cresult' = NoResult
                /\ pc' = "links"
           ELSE /\ cresult' = res
                /\ UNCHANGED <<pending, pc>>
    /\ UNCHANGED <<ret, pool, db, queue, crawled, page, failed>>
    /\ UNCHANGED <<fvars, ivars>>

(***************************************************************************)
(* Terms.  idf = log10(n / d) is kept as the reduced fraction n/d, and a   *)
(* TF-IDF score tf * log10(n / d) as the fraction (n/d)^tf, so that two    *)
(* scores are equal exactly when the numbers are (f32 rounding is left     *)
(* out).  An hstore is a function from page ids to its values; the keys    *)
(* and values the indexer writes are decimal strings of the numbers.       *)
(***************************************************************************)
RECURSIVE Gcd(_, _)
Gcd(a, b) == IF b = 0 THEN a ELSE Gcd(b, a % b)

RECURSIVE Pow(_, _)
Pow(b, e) == IF e = 0 THEN 1 ELSE b * Pow(b, e - 1)

\* log10(n as f32 / d as f32)
Log10Ratio(n, d) == [num |-> n \div Gcd(n, d), den |-> d \div Gcd(n, d)]

\* OrderedFloat(0.0) = log10(1)
ZeroF32 == Log10Ratio(1, 1)

\* tf * idf
MulF32(tf, idf) == [num |-> Pow(idf.num, tf), den |-> Pow(idf.den, tf)]

\* PgHstore::default()
EmptyHstore == << >>

\* PgHstore::insert(key, value)
HstoreInsert(h, key, value) ==
    [k \in DOMAIN h \cup {key} |-> IF k = key THEN value ELSE h[k]]

\* Term::new: Err for a character that is neither a letter nor ASCII
\* punctuation
TermNewOk(raw) == ~raw.digit

\* Term::new: to_lowercase, trim, drop the ASCII punctuation
NormalizeTerm(raw) == raw.letters

\* Term::new character by character.  The characters of the strings it is
\* tried on: a, A, e with an acute accent, the digit 1, a comma and the
\* right single quotation mark U+2019 (punctuation, but not ASCII).
TermChars == {"a", "A", "e_acute", "1", ",", "rsquo"}

\* diacritics::remove_diacritics
remove_diacritics(c) == IF c = "e_acute" THEN "e" ELSE c

\* char::is_alphabetic
is_alphabetic(c) == c \in {"a", "A", "e", "e_acute"}

\* char::is_ascii_punctuation
is_ascii_punctuation(c) == c = ","

\* char::to_lowercase
to_lowercase(c) == IF c = "A" THEN "a" ELSE c

\* variant of TermInvalidChar: only a numeric character is refused
TermInvalidCharNumeric(c) == c = "1"

\* Term::new, line 126: |c| !c.is_alphabetic() && !c.is_ascii_punctuation()
TermInvalidChar(c) == ~is_alphabetic(c) /\ ~is_ascii_punctuation(c)

\* Term::new, lines 135-140: to_lowercase, (trim,) drop ASCII punctuation
RECURSIVE TermNormalize(_)
TermNormalize(str) ==
    IF str = << >> THEN << >>
    ELSE IF is_ascii_punctuation(Head(str))
         THEN TermNormalize(Tail(str))
         ELSE <<to_lowercase(Head(str))>> \o TermNormalize(Tail(str))

\* Term::new of a string: Err, or Ok with the normalised term
TermNew(str) ==
    LET term == [i \in 1..Len(str) |-> remove_diacritics(str[i])]
    IN  IF \E i \in 1..Len(term) : TermInvalidChar(term[i])
        THEN Result("Err", << >>)
        ELSE Result("Ok", <<TermNormalize(term)>>)

Term(term, idf, page_frequency, tf_scores, tf_idf_scores) ==
    [term |-> term, idf |-> idf, page_frequency |-> page_frequency,
     tf_scores |-> tf_scores, tf_idf_scores |-> tf_idf_scores]

\* impl TryFrom<String> for Term, of a normalised string
TermTryFrom(term) == Term(term, ZeroF32, 0, EmptyHstore, EmptyHstore)

\* a subset of stop_words::get(LANGUAGE::English)
STOP_WORDS == {"the"}

\* variant of is_stop_word: no term is taken for a stop word
is_stop_word_none(term) == FALSE

\* Term::is_stop_word
is_stop_word(term) == term \in STOP_WORDS

\* Page::extract_relevant_terms: the terms of the tokens that Term::new
\* accepts and that are no stop words, in the order of the text
RECURSIVE extract_relevant_terms(_)
extract_relevant_terms(html) ==
    IF html = << >> THEN << >>
    ELSE LET raw == Head(html)
             rest == extract_relevant_terms(Tail(html))
         IN  IF TermNewOk(raw) /\ ~is_stop_word(NormalizeTerm(raw))
             THEN <<NormalizeTerm(raw)>> \o rest
             ELSE rest

\* Term::get_tf
get_tf(term, relevant_terms) ==
    Cardinality({i \in 1..Len(relevant_terms) : relevant_terms[i] = term})

\* variant of update_page_frequency: the occurrences are added
update_page_frequency_by_tf(t, tf) ==
    [t EXCEPT !.page_frequency = @ + tf]

\* Term::update_page_frequency
update_page_frequency(t, tf) ==
    IF tf > 0 THEN [t EXCEPT !.page_frequency = @ + 1] ELSE t

\* Term::update_total_idf
update_total_idf(t, n) ==
    IF t.page_frequency = 0 \/ n = 0 THEN [t EXCEPT !.idf = ZeroF32]
    ELSE [t EXCEPT !.idf = Log10Ratio(n, t.page_frequency)]

\* Term::update_tf_idf_scores
update_tf_idf_scores(t) ==
    [t EXCEPT !.tf_idf_scores =
        [id \in DOMAIN t.tf_idf_scores \cup DOMAIN t.tf_scores |->
            IF id \in DOMAIN t.tf_scores THEN MulF32(t.tf_scores[id], t.idf)
            ELSE t.tf_idf_scores[id]]]

\* HashMap::entry(k).or_insert(v) for every (k, v) of `old`
OrInsertAll(new, old) ==
    [k \in DOMAIN new \cup DOMAIN old |->
        IF k \in DOMAIN new THEN new[k] ELSE old[k]]

\* variant of merge_terms: the old row wins where both have a page id
merge_terms_old_wins(old_term, new_term) ==
    update_tf_idf_scores(
        Term(old_term.term, new_term.idf, new_term.page_frequency,
             OrInsertAll(old_term.tf_scores, new_term.tf_scores),
             OrInsertAll(old_term.tf_idf_scores, new_term.tf_idf_scores)))

\* Indexer::merge_terms
merge_terms(old_term, new_term) ==
    update_tf_idf_scores(
        Term(old_term.term, new_term.idf, new_term.page_frequency,
             OrInsertAll(new_term.tf_scores, old_term.tf_scores),
             OrInsertAll(new_term.tf_idf_scores, old_term.tf_idf_scores)))

\* variant of add_term: the row of the terms table is not looked up
add_term_fresh(ts, table, term) ==
    IF term \in DOMAIN ts THEN ts
    ELSE [k \in DOMAIN ts \cup {term} |->
            IF k \in DOMAIN ts THEN ts[k] ELSE TermTryFrom(term)]

\* Indexer::add_term with a pool: a term that is not in memory is taken
\* from the terms table when it has a row, else inserted as passed
add_term(ts, table, term) ==
    IF term \in DOMAIN ts THEN ts
    ELSE [k \in DOMAIN ts \cup {term} |->
            IF k \in DOMAIN ts THEN ts[k]
            ELSE IF term \in DOMAIN table THEN table[term]
            ELSE TermTryFrom(term)]

RECURSIVE AddTerms(_, _, _)
AddTerms(ts, table, relevant_terms) ==
    IF relevant_terms = << >> THEN ts
    ELSE AddTerms(add_term(ts, table, Head(relevant_terms)), table,
                  Tail(relevant_terms))

\* variant of RecordTf: the score is written also when it is 0
RecordTfAlways(t, id, tf) ==
    [t EXCEPT !.tf_scores = HstoreInsert(@, id, tf)]

\* parse_page, lines 430-434: tf_scores gets the page only if tf > 0
RecordTf(t, id, tf) ==
    IF tf > 0 THEN [t EXCEPT !.tf_scores = HstoreInsert(@, id, tf)] ELSE t

\* Indexer::parse_page, lines 413-437: the terms in memory afterwards
parse_page(ts, table, id, html, n) ==
    LET relevant_terms == extract_relevant_terms(html)
        added == AddTerms(ts, table, relevant_terms)
    IN  [k \in DOMAIN added |->
            LET tf == get_tf(k, relevant_terms)
            IN  RecordTf(update_total_idf(
                             update_page_frequency(added[k], tf), n),
                         id, tf)]

\* Indexer::update_terms_in_db: the terms table afterwards
update_terms_in_db(ts, table) ==
    [k \in DOMAIN ts \cup DOMAIN table |->
        IF k \in DOMAIN table
        THEN IF k \in DOMAIN ts THEN merge_terms(table[k], ts[k])
             ELSE table[k]
        ELSE ts[k]]

\* variant of RefreshAll: run goes on to update_terms_in_db at once
RefreshNone(ts) == ts

\* Indexer::run, lines 352-354: update_tf_idf_scores of every term
RefreshAll(ts) == [k \in DOMAIN ts |-> update_tf_idf_scores(ts[k])]

(***************************************************************************)
(* The indexer: the page queue and the catalogue side of its run loop.     *)
(***************************************************************************)
\* variant of add_page: the page is pushed and counted without the
\* contains test
add_page_unchecked(ix, p) ==
    [pages |-> PushBack(ix.pages, p), num_pages |-> ix.num_pages + 1]

\* variant of add_page: num_pages is not incremented
add_page_uncounted(ix, p) ==
    IF p \in ix.pages.hashset THEN ix
    ELSE [pages |-> PushBack(ix.pages, p), num_pages |-> ix.num_pages]

\* Indexer::add_page
add_page(ix, p) ==
    IF p \in ix.pages.hashset THEN ix
    ELSE [pages |-> PushBack(ix.pages, p), num_pages |-> ix.num_pages + 1]

RECURSIVE AddPages(_, _)
AddPages(ix, ps) ==
    IF ps = << >> THEN ix ELSE AddPages(add_page(ix, Head(ps)), Tail(ps))

IndexerIdle ==
    /\ ipc = "new"
    /\ pages = EmptyQueue
    /\ num_pages = 0
    /\ terms = << >>

\* Indexer::new: num_pages from the store, then refresh_queue
IndexerNew ==
    /\ ipc = "new"
    /\ pool
    /\ \E rows \in SelectLimit(UnindexedCrawledRows(db)) :
        LET ix == AddPages([pages |-> EmptyQueue,
                            num_pages |-> CountIndexed(db)], rows)
        IN  /\ pages' = ix.pages
            /\ num_pages' = ix.num_pages
    /\ ipc' = "run"
    /\ terms' = << >>
    /\ UNCHANGED <<db, terms_table>>
    /\ UNCHANGED <<pool, fvars, cvars, callvars>>

\* Indexer::run: pop a page and parse_page, which ends by marking the page
\* indexed
IndexerParse ==
    /\ ipc = "run"
    /\ pages.queue # << >>
    /\ LET id == Head(pages.queue)
       IN  /\ terms' = parse_page(terms, terms_table, id, db[id].html[1],
                                  num_pages)
           /\ db' = MarkIndexed(db, id)
    /\ pages' = PopFront(pages)
    /\ ipc' = IF pages'.queue = << >> THEN "flush" ELSE "run"
    /\ UNCHANGED <<num_pages, terms_table>>
    /\ UNCHANGED <<pool, fvars, cvars, callvars>>

\* variant of empty_terms: the map is left as it is
empty_terms_kept(ts) == ts

\* Indexer::empty_terms: self.terms.clear()
empty_terms(ts) == << >>

\* Indexer::run, the queue is empty: update_tf_idf_scores of every term,
\* update_terms_in_db, empty_terms, refresh_queue
IndexerFlush ==
    /\ ipc = "flush"
    /\ terms_table' = update_terms_in_db(RefreshAll(terms), terms_table)
    /\ terms' = empty_terms(terms)
    /\ \E rows \in SelectLimit(UnindexedCrawledRows(db)) :
        LET ix == AddPages([pages |-> pages, num_pages |-> num_pages], rows)
        IN  /\ pages' = ix.pages
            /\ num_pages' = ix.num_pages
    /\ ipc' = "run"
    /\ UNCHANGED db
    /\ UNCHANGED <<pool, fvars, cvars, callvars>>

\* Indexer::run: pop returns None, run returns
IndexerExit ==
    /\ ipc = "run"
    /\ pages.queue = << >>
    /\ ipc' = "done"
    /\ UNCHANGED <<db, pages, num_pages, terms, terms_table>>
    /\ UNCHANGED <<pool, fvars, cvars, callvars>>

\* the indexer process is started again
IndexerRestart ==
    /\ ipc = "done"
    /\ ipc' = "new"
    /\ pages' = EmptyQueue
    /\ num_pages' = 0
    /\ terms' = << >>
    /\ UNCHANGED <<db, terms_table>>
    /\ UNCHANGED <<pool, fvars, cvars, callvars>>

\* the indexer process is stopped between two steps of run and started
\* again: what it held in memory is gone, the tables are as they were
IndexerStop ==
    /\ ipc \in {"run", "flush"}
    /\ ipc' = "new"
    /\ pages' = EmptyQueue
    /\ num_pages' = 0
    /\ terms' = << >>
    /\ UNCHANGED <<db, terms_table>>
    /\ UNCHANGED <<pool, fvars, cvars, callvars>>

(***************************************************************************)
(* add_page and refresh_queue called on an indexer that Indexer::new has   *)
(* built, with no pop in between, as the tests call them.  args is [op,    *)
(* page, rows, before]: the function called, the page added or the rows    *)
(* the SELECT returned, and the queue and num_pages before the call.       *)
(***************************************************************************)
AddPageCall ==
    /\ ipc = "run"
    /\ args = << >>
    /\ \E p \in DOMAIN db :
        LET ix == add_page([pages |-> pages, num_pages |-> num_pages], p)
        IN  /\ pages' = ix.pages
            /\ num_pages' = ix.num_pages
            /\ args' = [op |-> "add_page", page |-> p, rows |-> << >>,
                        before |-> [pages |-> pages, num_pages |-> num_pages]]
    /\ ipc' = "called"
    /\ UNCHANGED <<db, terms, terms_table, ret>>
    /\ UNCHANGED <<pool, fvars, cvars>>

RefreshCall ==
    /\ ipc = "run"
    /\ args = << >>
    /\ \E rows \in SelectLimit(UnindexedCrawledRows(db)) :
        LET ix == AddPages([pages |-> pages, num_pages |-> num_pages], rows)
        IN  /\ pages' = ix.pages
            /\ num_pages' = ix.num_pages
            /\ args' = [op |-> "refresh_queue", page |-> NoPage, rows |-> rows,
                        before |-> [pages |-> pages, num_pages |-> num_pages]]
    /\ ipc' = "called"
    /\ UNCHANGED <<db, terms, terms_table, ret>>
    /\ UNCHANGED <<pool, fvars, cvars>>

(***************************************************************************)
(* One call of Indexer::merge_terms.                                       *)
(***************************************************************************)
\* the page ids of the indexer's specifications
PageC == Url("https", "c.com", << >>, FALSE)

IndexPages == {PageA, PageB, PageC}

\* the hstores over the page ids with values in V
Hstores(V) == UNION {[ids -> V] : ids \in SUBSET {PageA, PageB}}

\* the rows of one term the merge is tried on
MergeTerms ==
    {Term("ladder", idf, pf, tf, tfidf) :
        idf \in {ZeroF32, Log10Ratio(2, 1)}, pf \in 0..1,
        tf \in Hstores(1..MaxWords),
        tfidf \in Hstores({ZeroF32, Log10Ratio(2, 1)})}

NoCall ==
    /\ args = << >>
    /\ ret = None

MergeInit ==
    /\ \E o \in MergeTerms, n \in MergeTerms :
            args = [old_term |-> o, new_term |-> n]
    /\ ret = None

MergeCall ==
    /\ ret = None
    /\ ret' = Some(merge_terms(args.old_term, args.new_term))
    /\ UNCHANGED args
    /\ UNCHANGED <<fvars, dbvars, cvars, ivars>>

(***************************************************************************)
(* One call of Term::new.                                                  *)
(***************************************************************************)
TermInit ==
    /\ \E str \in SeqsUpTo(TermChars, MaxTermLen) : args = [term |-> str]
    /\ ret = None

TermCall ==
    /\ ret = None
    /\ ret' = Some(TermNew(args.term))
    /\ UNCHANGED args
    /\ UNCHANGED <<fvars, dbvars, cvars, ivars>>

(***************************************************************************)
(* One call of normalize_url.                                              *)
(***************************************************************************)
\* the parameters of the urls the call is tried on
Params ==
    {<<k, "5">> : k \in {KeyUtmSource, KeyMyUtm, KeyId, KeyT, KeyRating}}
    \cup {<<KeyRating, "x">>}

\* the urls the call is tried on: with and without a domain, a query, a
\* fragment
NormUrls ==
    {Url(scheme, host, query, fragment) :
        scheme \in {"http", "https"}, host \in {"a.com", "127.0.0.1"},
        query \in SeqsUpTo(Params, MaxParams), fragment \in BOOLEAN}

NormInit ==
    /\ \E u \in NormUrls : args = [url |-> u]
    /\ ret = None

\* Self::normalize_url(url): the url returned, or the panic of the expect
NormCall ==
    /\ ret = None
    /\ ret' = Some(IF NormalizePanics(args.url)
                   THEN Panic("normalize_url")
                   ELSE Result("Ok", <<normalize_url(args.url)>>))
    /\ UNCHANGED args
    /\ UNCHANGED <<fvars, dbvars, cvars, ivars>>

(***************************************************************************)
(* One call after another of Page::add_to_db on a catalogue.               *)
(***************************************************************************)
\* the rows a catalogue can hold: not crawled, crawled, crawled and indexed
StoredRows ==
    {[is_crawled |-> FALSE, is_indexed |-> FALSE, title |-> None, html |-> None],
     [is_crawled |-> TRUE, is_indexed |-> FALSE, title |-> Some("title"),
      html |-> Some(<<TokPipe>>)],
     [is_crawled |-> TRUE, is_indexed |-> TRUE, title |-> None,
      html |-> Some(<<TokLadder>>)]}

\* the catalogues over some of the pages
StoredCatalogues == UNION {[S -> StoredRows] : S \in SUBSET IndexPages}

\* page.add_to_db(pool): args is the page and the catalogue before the call
InsertCall ==
    /\ \E url \in IndexPages :
        /\ args' = [url |-> url, before |-> db]
        /\ db' = InsertPage(db, url)
    /\ ret' = Some(<< >>)
    /\ UNCHANGED <<pool, fvars, cvars, ivars>>

(***************************************************************************)
(* Specifications.                                                         *)
(***************************************************************************)
\* one call of extract_html_from_page; nothing else moves
FetchSpecInit ==
    /\ FetchInit
    /\ pool = FALSE
    /\ db = << >>
    /\ CrawlerIdle
    /\ IndexerIdle
    /\ terms_table = << >>
    /\ NoCall

FetchNext ==
    \/ FetchStart
    \/ FetchMatch
    \/ FetchSleep
    \/ FetchRetry
    \/ FetchAfterLoop

FetchSpec == FetchSpecInit /\ [][FetchNext]_vars

\* the crawler and the indexer over one catalogue, empty at the start
Init ==
    /\ FetchInit
    /\ pool \in BOOLEAN
    /\ db = << >>
    /\ CrawlerIdle
    /\ IndexerIdle
    /\ terms_table = << >>
    /\ NoCall

CrawlerNext ==
    \/ CrawlerNew
    \/ CrawlerPop
    \/ CrawlFetch
    \/ CrawlLink
    \/ CrawlReturn
    \/ CrawlerRestart

Next ==
    \/ CrawlerNew
    \/ CrawlerPop
    \/ CrawlFetch
    \/ CrawlLink
    \/ CrawlReturn
    \/ CrawlerRestart
    \/ IndexerNew
    \/ IndexerParse
    \/ IndexerFlush
    \/ IndexerExit
    \/ IndexerRestart

Spec == Init /\ [][Next]_vars

\* the scheduler always resumes the crawler's task
FairSpec == Spec /\ WF_vars(CrawlerNext)

\* the crawler with a database, stopped at some point and started again;
\* the scheduler always resumes the crawler's task
StopInit == Init /\ pool = TRUE

StopNext ==
    \/ CrawlerNew
    \/ CrawlerPop
    \/ CrawlFetch
    \/ CrawlLink
    \/ CrawlReturn
    \/ CrawlerRestart
    \/ CrawlerStop

FairStopSpec == StopInit /\ [][StopNext]_vars /\ WF_vars(CrawlerNext)

\* the crawler over a store whose writes may fail
DbFailNext ==
    \/ CrawlerNew
    \/ CrawlerPop
    \/ CrawlFetch
    \/ CrawlLink
    \/ CrawlLinkDbFails
    \/ CrawlReturn
    \/ RunDbFails
    \/ CrawlerRestart

DbFailSpec == Init /\ [][DbFailNext]_vars

\* a crawler is built, pops pages, and crawl_page is called twice on one
\* page
TwiceNext ==
    \/ CrawlerNew
    \/ CrawlerPop
    \/ CallCrawlPage
    \/ CrawlLink
    \/ CallReturn
    \/ CallAgain

TwiceSpec == Init /\ [][TwiceNext]_vars

\* one call of Term::new; nothing else moves
TermSpecInit ==
    /\ FetchInit
    /\ pool = FALSE
    /\ db = << >>
    /\ CrawlerIdle
    /\ IndexerIdle
    /\ terms_table = << >>
    /\ TermInit

TermNext == TermCall

TermSpec == TermSpecInit /\ [][TermNext]_vars

\* one call of normalize_url; nothing else moves
NormSpecInit ==
    /\ FetchInit
    /\ pool = FALSE
    /\ db = << >>
    /\ CrawlerIdle
    /\ IndexerIdle
    /\ terms_table = << >>
    /\ NormInit

NormNext == NormCall

NormSpec == NormSpecInit /\ [][NormNext]_vars

\* calls of Page::add_to_db on a catalogue; nothing else moves
InsertSpecInit ==
    /\ FetchInit
    /\ pool = TRUE
    /\ db \in StoredCatalogues
    /\ CrawlerIdle
    /\ IndexerIdle
    /\ terms_table = << >>
    /\ NoCall

InsertNext == InsertCall

InsertSpec == InsertSpecInit /\ [][InsertNext]_vars

\* the rows a crawler left in the catalogue: every page uncrawled, or
\* crawled with one of the given texts, and none indexed
CataloguesOver(docs) ==
    [IndexPages ->
        {[is_crawled |-> FALSE, is_indexed |-> FALSE, title |-> None,
          html |-> None]}
        \cup {[is_crawled |-> TRUE, is_indexed |-> FALSE,
               title |-> Some("title"), html |-> Some(doc)] : doc \in docs}]

CrawledCatalogues == CataloguesOver(Docs)

\* the indexer alone over a catalogue the crawler has filled, the terms
\* table empty at the start
IndexInitOver(catalogues) ==
    /\ FetchInit
    /\ pool = TRUE
    /\ db \in catalogues
    /\ CrawlerIdle
    /\ IndexerIdle
    /\ terms_table = << >>
    /\ NoCall

IndexInit == IndexInitOver(CrawledCatalogues)

\* the steps of Indexer::new and Indexer::run
IndexerRun ==
    \/ IndexerNew
    \/ IndexerParse
    \/ IndexerFlush
    \/ IndexerExit

IndexNext ==
    \/ IndexerNew
    \/ IndexerParse
    \/ IndexerFlush
    \/ IndexerExit
    \/ IndexerRestart

IndexSpec == IndexInit /\ [][IndexNext]_vars

\* the scheduler always resumes the indexer's task; whether run returns
\* does not depend on the texts, which are of one token here
FairIndexInit == IndexInitOver(CataloguesOver(SeqsUpTo(DocTokens, 1)))

FairIndexSpec ==
    FairIndexInit /\ [][IndexNext]_vars /\ WF_vars(IndexerRun)

\* the indexer over pages whose texts have stop words, plain and
\* capitalised with punctuation attached
FilterIndexInit ==
    IndexInitOver(CataloguesOver(SeqsUpTo(FilterTokens, MaxWords)))

FilterIndexSpec == FilterIndexInit /\ [][IndexNext]_vars

\* Indexer::new, then one call of add_page or of refresh_queue
RefreshNext ==
    \/ IndexerNew
    \/ AddPageCall
    \/ RefreshCall

RefreshSpec == IndexInit /\ [][RefreshNext]_vars

\* the indexer over pages whose texts have tokens of punctuation only
PunctIndexInit ==
    IndexInitOver(CataloguesOver(SeqsUpTo(PunctTokens, MaxWords)))

PunctIndexSpec == PunctIndexInit /\ [][IndexNext]_vars

\* the indexer alone, stopped and started again at any point
IndexStopNext ==
    \/ IndexerNew
    \/ IndexerParse
    \/ IndexerFlush
    \/ IndexerExit
    \/ IndexerRestart
    \/ IndexerStop

IndexStopSpec == IndexInit /\ [][IndexStopNext]_vars

\* one call of merge_terms; nothing else moves
MergeSpecInit ==
    /\ FetchInit
    /\ pool = FALSE
    /\ db = << >>
    /\ CrawlerIdle
    /\ IndexerIdle
    /\ terms_table = << >>
    /\ MergeInit

MergeNext == MergeCall

MergeSpec == MergeSpecInit /\ [][MergeNext]_vars

(***************************************************************************)
(* Properties of the page queue and of the run loop (Spec, FairSpec).      *)
(***************************************************************************)

\* C1: a page is in the queue's membership set if and only if it occurs in
\* the ordered sequence, also when a page was queued more than once.
C1_SetMatchesSequence == queue.hashset = Range(queue.queue)

\* C2: Crawler.run terminates: over a finite set of urls the run loop
\* eventually stops (pop returns nothing and run returns; a run that a
\* panic ended has stopped as well), also when pages fail or are rejected.
C2_RunTerminates == <>(pc \in {"done", "panicked"})

\* C3: a page whose crawl_page failed or was rejected is not put back into
\* the frontier: within the run no refill from the catalogue returns it
\* to the queue and it is not popped a second time.
C3_FailedNeverAgain ==
    pool =>
        \A p \in failed :
            /\ p \notin Range(queue.queue)
            /\ ~(pc \in {"crawl", "links"} /\ page = p)

\* C4: crawl_page returns a CrawledPage or one of the listed errors for
\* every fetch outcome and every list of hrefs; it never panics.
C4_NeverPanics ==
    /\ pc # "panicked"
    /\ cresult.kind \in
        {"none", "Ok", "FailedRequest", "EmptyPage", "InvalidRetryByHeader",
         "MalformedHttpStatus", "RequestTimeout", "HtmlDecoding",
         "NonEnglishPage", "InappropriateSite", "InvalidDomain"}

\* C10: in every state of the catalogue a row with is_crawled = TRUE has
\* its html populated and a row with is_indexed = TRUE has is_crawled = TRUE.
C10_CatalogueInvariant ==
    \A u \in DOMAIN db :
        /\ db[u].is_crawled => db[u].html # None
        /\ db[u].is_indexed => db[u].is_crawled

\* C10 happens: a page is indexed while the crawler is in the middle of
\* another page whose row is still uncrawled
C10_Witness ==
    /\ pc = "links"
    /\ page \in DOMAIN db
    /\ ~db[page].is_crawled
    /\ \E u \in DOMAIN db : db[u].is_indexed /\ db[u].html # None

(***************************************************************************)
(* Properties of the fetcher (FetchSpec).                                  *)
(***************************************************************************)

\* C5: after a first 429 with a usable Retry-After the fetcher issues at
\* most 10 further requests: at most 11 requests in total.
C5_AtMostElevenRequests == requests <= 1 + MAX_ATTEMPTS

\* C6: in the 429 branch the fetcher sleeps exactly once, for the
\* Retry-After value, after the first 429 and before the first retry, and
\* never between later retries.
C6_SleepsExactlyOnce ==
    /\ Len(slept) <= 1
    /\ fpc = "sleep" =>
        /\ slept = << >>
        /\ requests = 1
        /\ resp.status = StatusTooManyRequests
        /\ resp.retry_after # None
        /\ delay = ParseU64(resp.retry_after[1])
    /\ fpc = "loop" => slept = <<delay>>
    /\ requests >= 2 => slept = <<delay>>

\* C6 happens: the server answered 429 until the retry loop gave up
C6_Witness ==
    /\ fpc = "done"
    /\ fresult.kind = "RequestTimeout"
    /\ resp.status = StatusTooManyRequests
    /\ requests > 1 + MAX_ATTEMPTS
    /\ delay > 0
    /\ slept = <<delay>>

\* C7: a 429 with an unusable Retry-After ends the fetch at once, without
\* a sleep or a further request: no header gives InvalidRetryByHeader with
\* header None, a non-numeric value InvalidRetryByHeader with the raw
\* value, a value above 60 RequestTimeout (60 itself is retried).
C7_UnusableRetryAfter ==
    /\ (fpc = "done" /\ requests = 1 /\ resp.status = StatusTooManyRequests) =>
        /\ slept = << >>
        /\ IF resp.retry_after = None
           THEN /\ fresult.kind = "InvalidRetryByHeader"
                /\ fresult.detail = <<None>>
           ELSE LET raw == resp.retry_after[1]
                IN  IF ToStrOk(raw) /\ ParseU64Ok(raw)
                    THEN /\ ParseU64(raw) > MAX_DELAY
                         /\ fresult.kind = "RequestTimeout"
                    ELSE /\ fresult.kind = "InvalidRetryByHeader"
                         /\ fresult.detail = <<Some(raw)>>
    /\ (fpc = "sleep" => delay <= MAX_DELAY)

\* C8 as claimed: every response whose status is neither 200 nor 429 ends
\* the fetch with MalformedHttpStatus carrying that status and is not
\* retried, the first response and a response to a retry alike.
C8_OtherStatusEndsFetch ==
    [][ (fpc \in {"match", "loop"} /\ resp.status \notin {StatusOK, StatusTooManyRequests})
            => /\ fpc' = "done"
               /\ fresult'.kind = "MalformedHttpStatus"
               /\ fresult'.detail = <<resp.status>>
               /\ requests' = requests ]_vars

\* C8 amended: a first response whose status is neither 200 nor 429 ends
\* the fetch with MalformedHttpStatus carrying that status, without a
\* sleep or a retry; MalformedHttpStatus is returned for no later response;
\* a response to a retry whose status is not 200 is retried until attempts
\* exceeds MAX_ATTEMPTS, and the fetch then ends with RequestTimeout.
C8_OtherStatusFirstOnly ==
    /\ (fpc = "done" /\ requests = 1 /\ resp # NoResp
            /\ resp.status \notin {StatusOK, StatusTooManyRequests}) =>
        /\ fresult.kind = "MalformedHttpStatus"
        /\ fresult.detail = <<resp.status>>
        /\ slept = << >>
    /\ fresult.kind = "MalformedHttpStatus" => requests = 1
    /\ (fpc = "done" /\ requests >= 2 /\ fresult.kind # "FailedRequest"
            /\ resp.status # StatusOK) =>
        /\ fresult.kind = "RequestTimeout"
        /\ attempts > MAX_ATTEMPTS

\* C8 amended happens: a status other than 200 and 429 answered the last
\* retry and the fetch ended with RequestTimeout
C8_Witness ==
    /\ fpc = "done"
    /\ requests >= 2
    /\ resp.status \notin {StatusOK, StatusTooManyRequests}
    /\ fresult.kind = "RequestTimeout"

\* C9: a 200 response with an empty body yields EmptyPage, as the first
\* response and after 429 retries; Ok is returned only for a non-empty body.
C9_EmptyBodyIsEmptyPage ==
    /\ (fpc = "done" /\ resp.status = StatusOK /\ resp.body = "empty") =>
            fresult.kind = "EmptyPage"
    /\ fresult.kind = "Ok" => resp.body = "html"

(***************************************************************************)
(* Properties of the crawl of one page (Spec).                             *)
(***************************************************************************)

\* C11: a catalogue row is flipped to is_crawled = TRUE only for the page
\* whose crawl_page returned Ok (its fetch succeeded and it passed the
\* language and the content filter); when crawl_page returns an error the
\* catalogue is left as it was.
C11_CrawledOnlyOnSuccess ==
    [][ /\ \A u \in DOMAIN db' :
            (u \in DOMAIN db /\ ~db[u].is_crawled /\ db'[u].is_crawled)
                => /\ u = page
                   /\ pc = "links"
                   /\ pending = << >>
                   /\ cresult' = OkCrawledPage
        /\ (pc = "crawl" /\ pc' = "run") =>
                /\ cresult'.kind \notin {"none", "Ok"}
                /\ db' = db ]_vars

\* C11 happens: one page was stored as crawled after an Ok, another one
\* failed and its row is still uncrawled
C11_Witness ==
    /\ pool
    /\ pc = "run"
    /\ cresult.kind \notin {"none", "Ok"}
    /\ page \in DOMAIN db
    /\ ~db[page].is_crawled
    /\ \E u \in DOMAIN db : db[u].is_crawled

\* number of copies of page u in the sequence of queue q
CopiesQueued(q, u) ==
    Cardinality({i \in 1..Len(q.queue) : q.queue[i] = u})

\* how often a crawler with queue q, crawled set c and catalogue d holds
\* page u as a page to crawl or as one it has seen: its copies in the
\* queue, or once if it is not queued and is in c or has a row of d
CopiesKnown(q, c, d, u) ==
    IF CopiesQueued(q, u) > 0 THEN CopiesQueued(q, u)
    ELSE IF u \in c \/ (pool /\ u \in DOMAIN d) THEN 1
    ELSE 0

\* the urls the modelled hrefs and seeds lead to
KnownUrls == SeedUrls \cup DOMAIN db \cup crawled \cup Range(queue.queue)

\* C20: for every href of a successfully fetched page p that resolves to a
\* url, once crawl_page(p) has handled the href the frontier holds
\* normalise(resolve(p.url, href)) exactly once, and a url the frontier
\* holds exactly once stays so through the rest of the link loop: also when
\* p has the url several times or the url was queued before.
C20_LinkQueuedExactlyOnce ==
    [][ (pc = "links" /\ pending # << >> /\ pending' = Tail(pending)
            /\ pc' = "links") =>
          LET url == string_to_url(page, Head(pending))
          IN  /\ url # None =>
                    CopiesKnown(queue', crawled', db',
                                normalize_url(url[1])) = 1
              /\ \A u \in KnownUrls :
                    CopiesKnown(queue, crawled, db, u) = 1
                        => CopiesKnown(queue', crawled', db', u) = 1 ]_vars

\* C38: within one run every url is fetched at most once: a page that has
\* been popped and crawled, a seed page included, is not enqueued again
\* when a page links to it.  Stated for the page the state remembers, the
\* one run has popped last: a link to it does not put it into the queue
\* again, and when its crawl has succeeded it is not the next page popped.
C38_FetchedAtMostOnce ==
    [][ /\ (pc = "links" /\ pc' = "links" /\ pending # << >>
                /\ pending' = Tail(pending))
            => Len(SelectSeq(queue'.queue, LAMBDA q : q = page))
                  <= Len(SelectSeq(queue.queue, LAMBDA q : q = page))
        /\ (pc = "run" /\ pc' = "crawl" /\ cresult = OkCrawledPage)
            => page' # page ]_vars

\* C39: after every batch flush every row of the terms table, the rows of
\* the terms that occurred in no page of the batch included, has idf =
\* log10(N / page_frequency) for the corpus size N of the flush, and 0 when
\* page_frequency or N is 0.
C39_FlushRefreshesEveryIdf ==
    [][ (ipc = "flush" /\ ipc' = "run") =>
            \A k \in DOMAIN terms_table' :
                terms_table'[k].idf =
                    IF terms_table'[k].page_frequency = 0 \/ num_pages = 0
                    THEN ZeroF32
                    ELSE Log10Ratio(num_pages,
                                    terms_table'[k].page_frequency) ]_vars

\* C40: when crawl_page returns an error (a fetch failure, NonEnglishPage
\* or InappropriateSite) the queue and the crawled set are as they were
\* before the call, and no row was inserted into the catalogue: no link of
\* the failed page is enqueued, recorded as seen or stored.
C40_FailedCrawlKeepsFrontier ==
    [][ (pc = "crawl" /\ pc' = "run" /\ cresult'.kind # "Ok") =>
            /\ queue' = queue
            /\ crawled' = crawled
            /\ db' = db ]_vars

\* C40 happens: the crawl of a page has just failed on a filter while the
\* crawler holds queued pages and seen links
C40_Witness ==
    /\ pc = "run"
    /\ cresult \in {NonEnglishPage, InappropriateSite}
    /\ page \in failed
    /\ queue.queue # << >>
    /\ crawled # {}

\* sequence s is the beginning of sequence t
IsPrefix(s, t) == Len(s) <= Len(t) /\ SubSeq(t, 1, Len(s)) = s

\* C22: the in-memory frontier is strict FIFO.  In every step of one
\* crawler the sequence only grows at its tail, except for a pop, which
\* hands run the page at the head (after the refill, if the queue was
\* empty) and leaves the rest in order; and the link loop visits the hrefs
\* in document order and appends the page of the href it has just visited,
\* or nothing.
C22_FrontierIsFifo ==
    [][ pc' # "new" =>
          /\ IF pc = "run" /\ pc' = "crawl"
             THEN IsPrefix(queue.queue, <<page'>> \o queue'.queue)
             ELSE IsPrefix(queue.queue, queue'.queue)
          /\ (pc = "links" /\ pending' # pending /\ pc' = "links") =>
                /\ pending' = Tail(pending)
                /\ queue'.queue # queue.queue =>
                      LET url == string_to_url(page, Head(pending))
                      IN  /\ url # None
                          /\ queue'.queue =
                                Append(queue.queue, normalize_url(url[1])) ]_vars

\* C22 happens: two seeds and no database; the first seed was popped and
\* its link to c.com queued behind the second seed, which is popped next
C22_Witness ==
    /\ ~pool
    /\ pc = "crawl"
    /\ page = PageB
    /\ Len(queue.queue) = 1
    /\ queue.queue[1].host = "c.com"

\* C21: calling crawl_page twice on the same page leaves the queue exactly
\* as it was after the first call: during and after the second call the
\* queue (sequence and set) is the one the first call returned with.
C21_SecondCrawlKeepsQueue ==
    (args # << >> /\ args.calls = 2) => queue = ret[1]

\* C21 happens: the first call queued a link, the second call has returned
C21_Witness ==
    /\ pc = "called"
    /\ args.calls = 2
    /\ ret[1] # args.before
    /\ queue = ret[1]

\* the key contains "utm", or it is "id" or "t"
PassiveKey(k) ==
    \/ \E i \in 1..Len(k) :
            i + 2 <= Len(k) /\ k[i] = "u" /\ k[i + 1] = "t" /\ k[i + 2] = "m"
    \/ k = <<"i", "d">>
    \/ k = <<"t">>

\* the parameter is not one that normalisation drops
IsActiveParam(param) == ~PassiveKey(param[1])

\* C24: for every url u that normalize_url returns a url for, the result
\* has no fragment and no query parameter whose key contains "utm" or is
\* "id" or "t", and its query is the other parameters of u, each with its
\* value, in their original order.
C24_NormalisedUrl ==
    (ret # None /\ ret[1].kind = "Ok") =>
        LET u == args.url
            n == ret[1].detail[1]
        IN  /\ ~n.fragment
            /\ \A i \in 1..Len(n.query) : ~PassiveKey(n.query[i][1])
            /\ n.query = SelectSeq(u.query, IsActiveParam)

\* C24 happens: a url with a fragment, an active parameter and, behind it,
\* one whose key has "utm" inside
C24_Witness ==
    /\ ret # None
    /\ ret[1].kind = "Ok"
    /\ args.url.fragment
    /\ args.url.query = <<<<KeyRating, "x">>, <<KeyMyUtm, "5">>>>
    /\ ret[1].detail[1].query = <<<<KeyRating, "x">>>>

\* C36: normalise(u) has the same scheme and domain as u for every url u
\* that it returns a url for, including an http url that carries a query
\* or a fragment (the path is not part of the modelled url).
C36_KeepsSchemeAndDomain ==
    (ret # None /\ ret[1].kind = "Ok") =>
        /\ ret[1].detail[1].scheme = args.url.scheme
        /\ ret[1].detail[1].host = args.url.host

\* the document's html element has a lang attribute that begins with "en"
LangIsEnglish(html) ==
    /\ html.lang # None
    /\ Len(html.lang[1]) >= 2
    /\ html.lang[1][1] = "e"
    /\ html.lang[1][2] = "n"

\* what the claim has crawl_page return for a fetched page and its document
C25_Expected(p, html) ==
    IF ~LangIsEnglish(html) THEN "NonEnglishPage"
    ELSE IF UrlSeverity(p) = "SEVERE" \/ html.text = "SEVERE"
         THEN "InappropriateSite"
         ELSE "Ok"

\* C25: on a fetched page crawl_page returns NonEnglishPage when the html
\* element has no lang attribute that begins with "en" (none at all
\* included); otherwise InappropriateSite when the scan of the url or of
\* the visible text finds SEVERE (a blocked url whatever the text);
\* otherwise Ok.  The language check comes first, a rejected page has no
\* link queued, and only a page that passes both filters reaches the link
\* loop.
C25_FilterOrder ==
    args # << >> =>
        /\ pc = "called" => cresult.kind = C25_Expected(args.page, args.html)
        /\ C25_Expected(args.page, args.html) # "Ok" =>
                /\ pc = "called"
                /\ queue = args.before
        /\ pc = "links" => C25_Expected(args.page, args.html) = "Ok"

\* C25 happens: a page with a blocked url and blocked text whose document
\* is not in English was rejected for its language
C25_Witness ==
    /\ args # << >>
    /\ pc = "called"
    /\ args.page = PageBlocked
    /\ args.html = Html(None, "SEVERE")
    /\ cresult = NonEnglishPage

\* C23: after Page::add_to_db of a url the catalogue has one row for the
\* url and the rows it had before, every one of them as it was: a url that
\* already had a row keeps its is_crawled, is_indexed, title and html; a
\* new row is uncrawled and unindexed.
C23_InsertKeepsExistingRow ==
    args # << >> =>
        /\ DOMAIN db = DOMAIN args.before \cup {args.url}
        /\ \A u \in DOMAIN args.before : db[u] = args.before[u]
        /\ args.url \notin DOMAIN args.before =>
                /\ ~db[args.url].is_crawled
                /\ ~db[args.url].is_indexed
                /\ db[args.url].title = None
                /\ db[args.url].html = None

\* C23 happens: the url inserted had a crawled row with a title
C23_Witness ==
    /\ args # << >>
    /\ args.url \in DOMAIN args.before
    /\ args.before[args.url].is_crawled
    /\ db[args.url].title # None

\* C31: a failed catalogue write (the insert of a discovered page or the
\* mark-crawled update) is swallowed: the run goes on with the next link
\* or page, and the affected row keeps its previous state.  A write has
\* failed when crawl_page has gone past a new link and the link has no
\* row, or when crawl_page has returned and the page's row is uncrawled.
C31_FailedWriteSwallowed ==
    [][ /\ (/\ pool
            /\ pc = "links"
            /\ pending # << >>
            /\ pending' = Tail(pending)
            /\ string_to_url(page, Head(pending)) # None
            /\ ~NormalizePanics(string_to_url(page, Head(pending))[1])
            /\ LET p == normalize_url(string_to_url(page, Head(pending))[1])
               IN  ~IsDuplicate(crawled, queue, p) /\ p \notin DOMAIN db')
                => (pc' = "links" /\ db' = db)
        /\ (/\ pool
            /\ pc = "links"
            /\ pending = << >>
            /\ pc' # "links"
            /\ page \in DOMAIN db'
            /\ ~db'[page].is_crawled)
                => (pc' = "run" /\ db' = db) ]_vars

\* the urls the crawler can come to know: the seeds and the links it queues
KnownPages ==
    SeedUrls \cup
        {normalize_url(h.url) :
            h \in {x \in Hrefs : x.kind = "abs" /\ ~NormalizePanics(x.url)}}

\* every url the crawler holds in memory has a catalogue row
DiscoveredKeepRow ==
    (Range(queue.queue) \cup crawled
        \cup (IF pc \in {"crawl", "links"} THEN {page} ELSE {}))
            \subseteq DOMAIN db

\* the page in flight when the process is stopped stays uncrawled, and no
\* row is lost or changed by the stop
InterruptedStaysUncrawled ==
    (ret = None /\ ret' # None) =>
        /\ db' = db
        /\ pc \in {"crawl", "links"} =>
                (page \in DOMAIN db /\ ~db[page].is_crawled)

\* after the restart every uncrawled row is returned by a refill and popped
UncrawledPopped ==
    \A u \in KnownPages :
        (ret # None /\ pc = "new" /\ u \in UncrawledRows(db))
            ~> (pc = "crawl" /\ page = u)

\* C32: stopping the crawler process at any point loses at most the page
\* in flight: every url already discovered keeps a catalogue row, the
\* interrupted page stays is_crawled = FALSE, and after a restart every
\* row with is_crawled = FALSE is eventually returned by a refill and
\* popped.
C32_StopLosesAtMostPage ==
    /\ []DiscoveredKeepRow
    /\ [][InterruptedStaysUncrawled]_vars
    /\ UncrawledPopped

(***************************************************************************)
(* Properties of Term::new (TermSpec).                                     *)
(***************************************************************************)
\* the digits, the letters and the ASCII punctuation among TermChars
DigitChars == {"1"}

LetterChars == {"a", "A", "e_acute"}

AsciiPunctChars == {","}

TermsOfPage(u) == extract_relevant_terms(db[u].html[1])

\* the indexed pages whose text has the term at least once
IndexedPagesWith(term) ==
    {u \in DOMAIN db :
        db[u].is_indexed /\ get_tf(term, TermsOfPage(u)) > 0}

\* C12: a page is marked is_indexed = TRUE only after its TF scores are
\* in the terms table: in every state, also after the process was stopped
\* between two steps of a batch, every term of an indexed page has a row
\* whose tf_scores holds the page.
C12_IndexedAfterScoresStored ==
    \A u \in DOMAIN db :
        db[u].is_indexed =>
            \A i \in 1..Len(TermsOfPage(u)) :
                /\ TermsOfPage(u)[i] \in DOMAIN terms_table
                /\ u \in DOMAIN terms_table[TermsOfPage(u)[i]].tf_scores

\* C13: between batches (nothing of a batch is held in memory), after any
\* number of batches, every row of the terms table has page_frequency equal
\* to the number of indexed pages whose text has the term and its tf_scores
\* holds exactly those pages; no term of an indexed page lacks its row.
C13_PageFrequencyCountsPages ==
    (ipc \in {"run", "done"} /\ terms = << >>) =>
        /\ \A k \in DOMAIN terms_table :
            /\ terms_table[k].page_frequency =
                    Cardinality(IndexedPagesWith(k))
            /\ DOMAIN terms_table[k].tf_scores = IndexedPagesWith(k)
        /\ \A u \in DOMAIN db :
                db[u].is_indexed =>
                    Range(TermsOfPage(u)) \subseteq DOMAIN terms_table

\* C13 happens: a term of three pages, which QUEUE_LIMIT splits over two
\* batches, so that the second batch was merged into the row of the first
C13_Witness ==
    /\ ipc = "done"
    /\ Cardinality(IndexPages) > QUEUE_LIMIT
    /\ \E k \in DOMAIN terms_table :
            terms_table[k].page_frequency = Cardinality(IndexPages)

\* C15: after a batch has been flushed, every row of the terms table has,
\* for every page id of its tf_scores, a tf_idf_scores entry equal to the
\* tf of that page multiplied by the row's idf.
C15_TfIdfIsTfTimesIdf ==
    \A k \in DOMAIN terms_table :
        \A id \in DOMAIN terms_table[k].tf_scores :
            /\ id \in DOMAIN terms_table[k].tf_idf_scores
            /\ terms_table[k].tf_idf_scores[id] =
                    MulF32(terms_table[k].tf_scores[id], terms_table[k].idf)

\* C15 happens: a row written by two batches, with an idf that is not 0
\* and a page whose tf is above 1
C15_Witness ==
    \E k \in DOMAIN terms_table :
        /\ terms_table[k].page_frequency = 2
        /\ terms_table[k].idf # ZeroF32
        /\ \E id \in DOMAIN terms_table[k].tf_scores :
                /\ terms_table[k].tf_scores[id] > 1
                /\ terms_table[k].tf_idf_scores[id] # ZeroF32
        /\ \A u \in IndexPages : db[u].is_indexed

\* a step of run that parses the page at the head of the queue
ParsesHead ==
    /\ ipc = "run"
    /\ pages.queue # << >>
    /\ pages' = PopFront(pages)
    /\ ipc' \in {"run", "flush"}

\* the row parse_page starts from for term k: the one in memory, else the
\* one of the terms table, else a new one
TermBeforeParse(k) ==
    IF k \in DOMAIN terms THEN terms[k]
    ELSE IF k \in DOMAIN terms_table THEN terms_table[k]
    ELSE TermTryFrom(k)

\* number of tokens of the text that give the term
Occurrences(k, html) ==
    Cardinality({i \in 1..Len(html) :
        TermNewOk(html[i]) /\ NormalizeTerm(html[i]) = k})

\* C16: after parse_page(p) every term held in memory has a tf_scores
\* entry for p exactly when the term occurs in p's token list, the entry is
\* the number of occurrences, and page_frequency went up by one for exactly
\* those terms; every term of p that is no stop word is held in memory.
C16_TfScoresIffOccurs ==
    [][ ParsesHead =>
          LET p == Head(pages.queue)
              html == db[p].html[1]
          IN  /\ \A k \in DOMAIN terms' :
                    LET tf == Occurrences(k, html)
                    IN  /\ (p \in DOMAIN terms'[k].tf_scores) <=> (tf > 0)
                        /\ tf > 0 => terms'[k].tf_scores[p] = tf
                        /\ terms'[k].page_frequency =
                                TermBeforeParse(k).page_frequency
                                + (IF tf > 0 THEN 1 ELSE 0)
              /\ \A i \in 1..Len(html) :
                    (TermNewOk(html[i]) /\ NormalizeTerm(html[i]) \notin STOP_WORDS)
                        => NormalizeTerm(html[i]) \in DOMAIN terms' ]_vars

\* C16 happens: after a parse one term in memory has the page with a count
\* of 2, another term in memory does not occur in the page
C16_Witness ==
    /\ ipc \in {"run", "flush"}
    /\ \E p \in DOMAIN db :
        /\ db[p].is_indexed
        /\ \E k \in DOMAIN terms :
                /\ p \in DOMAIN terms[k].tf_scores
                /\ terms[k].tf_scores[p] = 2
        /\ \E k \in DOMAIN terms :
                /\ p \notin DOMAIN terms[k].tf_scores
                /\ terms[k].page_frequency > 0

\* C17: page_frequency never exceeds the corpus size N: for a term in
\* memory N is Indexer.num_pages, for a row of the terms table N is the
\* number of indexed pages (what Indexer::new reads as N), in every state,
\* over any number of batches, stops and restarts.
C17_PageFrequencyAtMostN ==
    /\ \A k \in DOMAIN terms : terms[k].page_frequency <= num_pages
    /\ \A k \in DOMAIN terms_table :
            terms_table[k].page_frequency <= CountIndexed(db)

\* C17 happens: at the end of a later batch a term in memory has reached
\* the corpus size of all pages, its row of an earlier batch counts fewer
\* pages than are indexed
C17_Witness ==
    /\ ipc = "flush"
    /\ \E k \in DOMAIN terms \cap DOMAIN terms_table :
        /\ terms[k].page_frequency = num_pages
        /\ terms_table[k].page_frequency > 0
        /\ terms_table[k].page_frequency < CountIndexed(db)
        /\ num_pages = Cardinality(IndexPages)

\* the crawled pages whose text has the term at least once
CrawledPagesWith(k) ==
    {u \in CrawledRows(db) : Occurrences(k, db[u].html[1]) > 0}

\* the terms of the crawled pages that are no stop words
CrawledTerms ==
    UNION {{NormalizeTerm(t) : t \in {x \in Range(db[u].html[1]) : TermNewOk(x)}} :
            u \in CrawledRows(db)} \ STOP_WORDS

\* C18: a run over a fresh terms table and N crawled pages that fit one
\* batch leaves, for every term that is no stop word, a row with
\* page_frequency = the number of pages that have the term, tf_scores[p] =
\* the occurrences in p for exactly those pages, and idf =
\* log10(N / page_frequency), which is 0 for a term of all N pages; stop
\* words get no row.
C18_OneBatchScores ==
    (ipc = "done" /\ Cardinality(CrawledRows(db)) <= QUEUE_LIMIT) =>
        /\ DOMAIN terms_table = CrawledTerms
        /\ \A k \in CrawledTerms :
            /\ terms_table[k].page_frequency =
                    Cardinality(CrawledPagesWith(k))
            /\ DOMAIN terms_table[k].tf_scores = CrawledPagesWith(k)
            /\ \A p \in CrawledPagesWith(k) :
                    terms_table[k].tf_scores[p] =
                        Occurrences(k, db[p].html[1])
            /\ terms_table[k].idf =
                    Log10Ratio(Cardinality(CrawledRows(db)),
                               Cardinality(CrawledPagesWith(k)))
            /\ (CrawledPagesWith(k) = CrawledRows(db))
                    => terms_table[k].idf = ZeroF32

\* C18 happens: two pages in one batch, ladder in both (idf 0), pipe in
\* one (idf log10(2)), and a stop word in the text
C18_Witness ==
    /\ ipc = "done"
    /\ Cardinality(CrawledRows(db)) = 2
    /\ "ladder" \in DOMAIN terms_table
    /\ terms_table["ladder"].page_frequency = 2
    /\ terms_table["ladder"].idf = ZeroF32
    /\ "pipe" \in DOMAIN terms_table
    /\ terms_table["pipe"].page_frequency = 1
    /\ terms_table["pipe"].idf = Log10Ratio(2, 1)
    /\ \E u \in CrawledRows(db) : TokThe \in Range(db[u].html[1])

\* crawl_page has just enqueued a link: queue_page (line 133) is followed
\* by self.crawled.insert (line 138), and nothing else adds to crawled
\* while the links of a page are read
LinkEnqueued(pc0, pc1, crawled0, crawled1) ==
    pc0 = "links" /\ pc1 = "links" /\ crawled1 # crawled0

\* C28 as stated: queue_page appends the page to the in-memory sequence
\* and set and writes its row to the catalogue, so that right after a link
\* is enqueued contains(page) is true and the row exists.
C28_EnqueueMemoryAndRow ==
    [][ LinkEnqueued(pc, pc', crawled, crawled') =>
            \A p \in crawled' \ crawled :
                /\ queue'.queue = Append(queue.queue, p)
                /\ contains_page(queue', p)
                /\ p \in DOMAIN db' ]_vars

\* C28 amended: with a database queue_page writes the page's row (an
\* existing row stays as it is) and leaves the in-memory sequence and set
\* as they are; without a database it appends the page to the sequence,
\* inserts it into the set and writes nothing.
C28_EnqueueMemoryOrRow ==
    [][ LinkEnqueued(pc, pc', crawled, crawled') =>
            \A p \in crawled' \ crawled :
                IF pool
                THEN /\ queue' = queue
                     /\ DOMAIN db' = DOMAIN db \cup {p}
                     /\ \A u \in DOMAIN db : db'[u] = db[u]
                     /\ p \notin DOMAIN db =>
                            (~db'[p].is_crawled /\ ~db'[p].is_indexed)
                ELSE /\ queue'.queue = Append(queue.queue, p)
                     /\ queue'.hashset = queue.hashset \cup {p}
                     /\ db' = db ]_vars

\* C28 happens: with a database a link was enqueued in this run (it is in
\* crawled and its row is uncrawled); the row is there and the page is not
\* in the queue
C28_Witness ==
    /\ pool
    /\ pc = "links"
    /\ \E p \in crawled :
            /\ p \in DOMAIN db
            /\ ~db[p].is_crawled
            /\ ~contains_page(queue, p)

\* C29: the number of pages held in the crawler's in-memory frontier never
\* exceeds QUEUE_LIMIT, whatever the number of seed pages and of links
\* discovered.
C29_FrontierWithinLimit ==
    /\ Len(queue.queue) <= QUEUE_LIMIT
    /\ Cardinality(queue.hashset) <= QUEUE_LIMIT

\* C30 as stated: a url enters the crawler's in-memory crawled set only
\* after its own page has been processed successfully (in this run, or in
\* an earlier one, as its catalogue row tells at startup); a url that was
\* only discovered and queued, or whose crawl failed, is not in the set.
C30_CrawledOnlyAfterSuccess ==
    [][ \A p \in crawled' \ crawled :
            \/ pc = "new" /\ p \in CrawledRows(db)
            \/ p = page /\ cresult' = OkCrawledPage ]_vars

\* crawl_page has read the next href and gone on: the step from s0 to s1
ReadsLink(pc0, pc1, pending0, pending1) ==
    /\ pc0 = "links"
    /\ pc1 = "links"
    /\ pending0 # << >>
    /\ pending1 = Tail(pending0)

\* C30 amended: a url enters the crawled set when crawl_page finds it as
\* a link that is neither in the set nor in the queue and enqueues it,
\* before its page is fetched, or at startup when its catalogue row is
\* crawled; every link enqueued enters the set; the page that crawl_page
\* has processed is not added when the call returns.
C30_CrawledOnEnqueue ==
    [][ /\ \A p \in crawled' \ crawled :
            \/ pc = "new" /\ p \in CrawledRows(db)
            \/ /\ ReadsLink(pc, pc', pending, pending')
               /\ string_to_url(page, Head(pending)) # None
               /\ p = normalize_url(string_to_url(page, Head(pending))[1])
               /\ ~contains_page(queue, p)
               /\ IF pool THEN p \in DOMAIN db'
                          ELSE queue'.queue = Append(queue.queue, p)
        /\ (/\ ReadsLink(pc, pc', pending, pending')
            /\ string_to_url(page, Head(pending)) # None)
                => LET p == normalize_url(string_to_url(page, Head(pending))[1])
                   IN  ~contains_page(queue, p) => p \in crawled'
        /\ (pc \in {"crawl", "links"} /\ pc' = "run")
                => crawled' = crawled ]_vars

\* C30 happens: without a database a link was found and queued; it is in
\* crawled while it waits in the queue, its page never fetched
C30_Witness ==
    /\ ~pool
    /\ pc = "links"
    /\ \E p \in crawled :
            /\ contains_page(queue, p)
            /\ p # page
            /\ p \notin failed

\* the rows with is_indexed = TRUE
IndexedRows == {u \in DOMAIN db : db[u].is_indexed}

\* C33 as stated: num_pages equals the number of catalogue rows with
\* is_indexed = TRUE, at startup and whenever it is used to compute an idf
\* (run is about to parse a page).
C33_NumPagesIsIndexedCount ==
    ipc = "run" => num_pages = Cardinality(IndexedRows)

\* C33 amended: from startup on num_pages equals the number of rows with
\* is_indexed = TRUE plus the number of pages in the indexer's queue, so
\* that an idf is computed with the indexed rows, the page being parsed
\* and the pages still queued; it is the number of indexed rows when the
\* queue is empty.
C33_NumPagesCountsQueued ==
    ipc # "new" =>
        /\ num_pages = Cardinality(IndexedRows) + Len(pages.queue)
        /\ Range(pages.queue) \cap IndexedRows = {}

\* C33 happens: an indexer started over one indexed and two unindexed
\* pages is about to parse the first of the two
C33_Witness ==
    /\ ipc = "run"
    /\ Cardinality(IndexedRows) = 1
    /\ Len(pages.queue) = 2
    /\ num_pages = 3

\* the call has left the queue and num_pages as they were
CallKeptQueue ==
    pages = args.before.pages /\ num_pages = args.before.num_pages

\* C34 as stated: adding a page that is already in the indexer's queue
\* changes neither the queue nor num_pages; hence refresh_queue called
\* again without an intervening pop leaves the queue and num_pages as they
\* were after the first call.
C34_SecondRefreshNoChange ==
    args # << >> =>
        /\ (args.op = "add_page"
                /\ contains_page(args.before.pages, args.page))
                    => CallKeptQueue
        /\ args.op = "refresh_queue" => CallKeptQueue

\* C34 amended: adding a page that is already queued changes nothing; a
\* second refresh_queue appends, in the order of the rows, the pages of
\* its SELECT that are not queued and counts each of them, and so changes
\* nothing when every row it reads is queued already, as is the case when
\* the catalogue has at most QUEUE_LIMIT crawled, unindexed rows.
C34_SecondRefreshAddsNewRows ==
    args # << >> =>
        /\ (args.op = "add_page"
                /\ contains_page(args.before.pages, args.page))
                    => CallKeptQueue
        /\ args.op = "refresh_queue" =>
            LET NotQueued(r) == ~contains_page(args.before.pages, r)
                new == SelectSeq(args.rows, NotQueued)
            IN  /\ pages.queue = args.before.pages.queue \o new
                /\ pages.hashset = args.before.pages.hashset \cup Range(new)
                /\ num_pages = args.before.num_pages + Len(new)
                /\ Cardinality(UnindexedCrawledRows(db)) <= QUEUE_LIMIT
                        => CallKeptQueue

\* C34 happens: refresh_queue was called again on a queue of two pages and
\* changed nothing
C34_Witness ==
    /\ args # << >>
    /\ args.op = "refresh_queue"
    /\ Len(args.before.pages.queue) = 2
    /\ Len(args.rows) = 2
    /\ CallKeptQueue

\* C35: a token that is empty after normalisation (a token made only of
\* punctuation) never becomes a term of the index: no term with an empty
\* string is in the in-memory term map or is upserted.
C35_NoEmptyTerm ==
    /\ "" \notin DOMAIN terms
    /\ "" \notin DOMAIN terms_table

\* C37: the in-memory term map is cleared after each upsert phase: at the
\* start of every batch (when Indexer::new or a flush has filled the
\* queue) it is empty, so that no term in memory is carried from one
\* batch into the next.
C37_TermsClearedPerBatch ==
    [][ (ipc \in {"new", "flush"} /\ ipc' = "run") => terms' = << >> ]_vars

\* C37 happens: a batch has been flushed and the next one begins with an
\* empty term map
C37_Witness ==
    /\ ipc = "run"
    /\ terms = << >>
    /\ terms_table # << >>
    /\ pages.queue # << >>

\* C27: no stop word enters the index: term extraction drops every token
\* whose normalised form is a stop word, so that no stop word is a key of
\* the in-memory term map or a row of the terms table.
C27_NoStopWordIndexed ==
    /\ \A u \in CrawledRows(db) :
            Range(extract_relevant_terms(db[u].html[1])) \cap STOP_WORDS = {}
    /\ DOMAIN terms \cap STOP_WORDS = {}
    /\ DOMAIN terms_table \cap STOP_WORDS = {}

\* C27 happens: a page whose text is "The, pipe" has been indexed and its
\* terms are stored
C27_Witness ==
    /\ ipc = "done"
    /\ \E u \in CrawledRows(db) :
            /\ db[u].html[1] = <<TokTheCap, TokPipe>>
            /\ db[u].is_indexed
    /\ "pipe" \in DOMAIN terms_table

C14_MergeTerms ==
    ret # None =>
        LET merged == ret[1]
            old == args.old_term
            new == args.new_term
        IN  /\ merged.page_frequency = new.page_frequency
            /\ merged.idf = new.idf
            /\ DOMAIN merged.tf_scores =
                    DOMAIN new.tf_scores \cup DOMAIN old.tf_scores
            /\ \A id \in DOMAIN merged.tf_scores :
                /\ merged.tf_scores[id] =
                        IF id \in DOMAIN new.tf_scores
                        THEN new.tf_scores[id] ELSE old.tf_scores[id]
                /\ id \in DOMAIN merged.tf_idf_scores
                /\ merged.tf_idf_scores[id] =
                        MulF32(merged.tf_scores[id], new.idf)

\* C14 happens: both rows score page A differently, only the old row has
\* page B, and the old row's TF-IDF scores were computed with another idf
C14_Witness ==
    /\ ret # None
    /\ PageA \in DOMAIN args.old_term.tf_scores
    /\ PageA \in DOMAIN args.new_term.tf_scores
    /\ args.old_term.tf_scores[PageA] # args.new_term.tf_scores[PageA]
    /\ PageB \in DOMAIN args.old_term.tf_scores
    /\ PageB \notin DOMAIN args.new_term.tf_scores
    /\ PageB \in DOMAIN args.old_term.tf_idf_scores
    /\ args.old_term.idf # args.new_term.idf
    /\ ret[1].tf_scores[PageB] = args.old_term.tf_scores[PageB]

=============================================================================
